---------------------------- MODULE Spec2Model ----------------------------
(***************************************************************************)
(* A model of the PDF object-graph traversal and page-classification core  *)
(* of pdf_tools: the reference resolver, the inheritance resolver, the     *)
(* image presence detector, the page blankness classifier and the document *)
(* splitter (src/tools/utils.py, src/tools/blank_page.py,                  *)
(* src/tools/split_pages.py).                                              *)
(*                                                                         *)
(* The document is a heap of objects. The code tells objects apart by duck *)
(* typing, and the model keeps exactly the kinds the code distinguishes:   *)
(*   "ref"     an indirect handle: has get_object(), is no dict, and its   *)
(*             .get(...) raises;                                            *)
(*   "dict"    isinstance(o, dict): .get(...) works, get_object() returns  *)
(*             the object itself;                                          *)
(*   "maplike" not a dict, but .get(...) works (the branch the code keeps  *)
(*             for "stream/dict-like" objects);                            *)
(*   "scalar"  a plain value: no get_object(), .get(...) raises.           *)
(***************************************************************************)
EXTENDS Naturals, Integers, Sequences, FiniteSets, TLC

VARIABLES
    heap,           \* the object graph: object id -> object record
    \* ---- one call of _resolve(obj, max_hops)
    arg,            \* the value passed in
    obj,            \* the local variable obj
    max_hops,       \* the hop bound passed in
    hop,            \* iterations of `for _ in range(max_hops)` begun so far
    rpc,            \* "loop", or how the call returned: "break", "exhausted", "except"
    trail,          \* the identities obj has held, in order (observation only)
    \* ---- one call of _get_inherited(page_like, "/Resources")
    page_like,      \* the page passed in
    cur,            \* the local variable cur
    hops,           \* the local variable hops
    ipc,            \* "loop", or how the call returned: "found", "notfound"
    found,          \* the value returned
    \* ---- one call of page_has_images(resources)
    resources,      \* the resource table passed in
    hpc,            \* "call" before the call, "returned" after it
    has_images,     \* the call's outcome: [val, fail]
    \* ---- one call of is_blank_page(page, ...)
    page,           \* the page passed in: its node, text and content streams
    thresholds,     \* the keyword arguments
    bpc,            \* "call" before the call, "returned" after it
    verdict,        \* the call's outcome: [blank, reason]
    \* ---- one call of split_every_n_pages(src_pdf, out_dir, n)
    src_pdf,        \* the source document: the sequence of its pages
    n,              \* the group size passed in
    spc,            \* where the call stands
    out_dir,        \* the output directory: whether it exists, and its files
    reader,         \* the opened source, <<>> until it is opened
    idx,            \* index of the first source page of the next part
    part_no,        \* number of the next part
    offset,         \* position of the inner loop over range(n)
    writer,         \* the writer of the part being built
    parts,          \* the list of paths returned
    \* ---- runs of the tag stripper on one document
    pdf,            \* the document: its catalog keys, pages and object graph
    tool,           \* "strip_tags" or "_strip_tags_from_writer"
    runs,           \* how many runs have returned
    once,           \* the document as the first run left it
    \* ---- one call of remove_blank_pages(src_pdf, dst_pdf, ...)
    clean_src,      \* the file at src_pdf
    dst_pdf,        \* the file at dst_pdf
    fallback_on_all_blank,  \* the keyword argument
    cpc,            \* where the call stands
    clean_reader,   \* the pages read from the source
    clean_writer,   \* the writer the kept pages are added to
    pno,            \* position of the loop over reader.pages
    removed,        \* the local variable removed
    kept,           \* the local variable kept
    \* ---- one run of the batch driver process(in_dir, out_dir_split, ...)
    in_dir,         \* the input directory: source name -> file
    out_dir_split,  \* the split output directory: part name -> file
    out_dir_clean,  \* the clean output directory: part name -> file
    archive,        \* the archive directory: source name -> file
    every,          \* the argument n: split every n pages, no split if <= 0
    clean,          \* whether blank pages are removed (clean and out_dir_clean)
    fallback,       \* the argument fallback_on_all_blank
    archiving,      \* whether archive_dir is given
    pdfs,           \* the sorted list of source names
    doc_no,         \* position of the loop over pdfs
    dpc,            \* where the run stands
    batch_parts,    \* the local variable parts
    part_ix,        \* position of the loop over parts
    saves,          \* how many files the converter has saved
    faults,         \* how many operations have failed
    log,            \* the exceptions logged: <<source, where>>
    \* ---- calls of move_to_archive(src, archive_dir) on one archive directory
    archive_dir,    \* the archive directory: file name -> the source stored there
    collision,      \* how a taken name is avoided: "timestamp" or "counter"
    now,            \* the clock, in seconds
    moved,          \* how many sources have been moved
    returned_path,  \* the path the last call returned
    \* ---- one call of ensure_pdf14(path)
    path_file,      \* the file at path
    temp_file,      \* the file at temp_path
    epc,            \* where the call stands
    before,         \* the file at path when the call was made
    failed_at,      \* the step that raised, if one did
    logged,         \* whether logger.exception has run
    \* ---- one run of execute_workflow(workflow, variables, dry_run)
    steps,          \* workflow["steps"]: name, depends_on, on_error, condition of each
    dry_run,        \* the argument dry_run
    step_idx,       \* position of the loop over the steps
    completed_steps,\* the set completed_steps
    wpc,            \* where the run stands
    result,         \* the value returned
    executed_steps, \* positions of the steps whose script was executed
    succeeded_steps,\* positions of the steps whose script ended without exception
    post_ran        \* whether the post_workflow loop has run

resolveVars == <<arg, obj, max_hops, hop, rpc, trail>>
inheritVars == <<page_like, cur, hops, ipc, found>>
imageVars == <<resources, hpc, has_images>>
blankVars == <<page, thresholds, bpc, verdict>>
splitVars == <<src_pdf, n, spc, out_dir, reader, idx, part_no, offset, writer, parts>>
stripVars == <<pdf, tool, runs, once>>
cleanVars == <<clean_src, dst_pdf, fallback_on_all_blank, cpc, clean_reader,
               clean_writer, pno, removed, kept>>
batchVars == <<in_dir, out_dir_split, out_dir_clean, archive, every, clean, fallback,
               archiving, pdfs, doc_no, dpc, batch_parts, part_ix, saves, faults, log>>
archiveVars == <<archive_dir, collision, now, moved, returned_path>>
ensureVars == <<path_file, temp_file, epc, before, failed_at, logged>>
workflowVars == <<steps, dry_run, step_idx, completed_steps, wpc, result, executed_steps, succeeded_steps, post_ran>>
vars == <<heap, resolveVars, inheritVars, imageVars, blankVars, splitVars, stripVars,
          cleanVars, batchVars,
    archiveVars,
    ensureVars,
    workflowVars>>

\* what the steps of one function leave alone: the other functions' calls
NotArchive == <<heap, resolveVars, inheritVars, imageVars, blankVars, splitVars,
    stripVars, cleanVars, batchVars,
    ensureVars,
    workflowVars>>
NotEnsure == <<heap, resolveVars, inheritVars, imageVars, blankVars, splitVars,
    stripVars, cleanVars, batchVars, archiveVars,
    workflowVars>>
NotWorkflow == <<heap, resolveVars, inheritVars, imageVars, blankVars, splitVars,
    stripVars, cleanVars, batchVars, archiveVars, ensureVars>>
NotResolve == <<inheritVars, imageVars, blankVars, splitVars, stripVars,
    cleanVars, batchVars,
    archiveVars,
    ensureVars,
    workflowVars>>
NotInherit == <<resolveVars, imageVars, blankVars, splitVars, stripVars,
    cleanVars, batchVars,
    archiveVars,
    ensureVars,
    workflowVars>>
NotImages == <<resolveVars, inheritVars, blankVars, splitVars, stripVars,
    cleanVars, batchVars,
    archiveVars,
    ensureVars,
    workflowVars>>
NotBlank == <<resolveVars, inheritVars, imageVars, splitVars, stripVars,
    cleanVars, batchVars,
    archiveVars,
    ensureVars,
    workflowVars>>
NotSplit == <<heap, resolveVars, inheritVars, imageVars, blankVars, stripVars,
    cleanVars, batchVars,
    archiveVars,
    ensureVars,
    workflowVars>>
NotStrip == <<heap, resolveVars, inheritVars, imageVars, blankVars, splitVars,
    cleanVars, batchVars,
    archiveVars,
    ensureVars,
    workflowVars>>
NotClean == <<resolveVars, inheritVars, imageVars, splitVars, stripVars, batchVars,
    archiveVars,
    ensureVars,
    workflowVars>>
NotBatch == <<resolveVars, inheritVars, imageVars, splitVars, stripVars, cleanVars,
    archiveVars,
    ensureVars,
    workflowVars>>

\* the variables of a call that is not running
IdleResolve ==
    /\ arg = 0 /\ obj = 0 /\ max_hops = 0 /\ hop = 0 /\ rpc = "idle" /\ trail = <<>>
IdleInherit ==
    /\ page_like = 0 /\ cur = 0 /\ hops = 0 /\ ipc = "idle" /\ found = 0
IdleImages ==
    /\ resources = 0 /\ hpc = "idle" /\ has_images = [val |-> FALSE, fail |-> FALSE]
IdleBlank ==
    /\ page = 0 /\ thresholds = 0 /\ bpc = "idle"
    /\ verdict = [blank |-> FALSE, reason |-> "idle"]
\* PdfWriter(): a fresh catalog with no tagging key and no page
NoWriter == [catalog |-> {}, pages |-> <<>>, stripped |-> FALSE]
IdleSplit ==
    /\ src_pdf = <<>> /\ n = 0 /\ spc = "idle"
    /\ out_dir = [exists |-> FALSE, files |-> <<>>]
    /\ reader = <<>> /\ idx = 0 /\ part_no = 0 /\ offset = 0
    /\ writer = NoWriter /\ parts = <<>>
NoPdf == [catalog |-> {}, pages |-> <<>>, graph |-> <<>>]
\* A file is [state, catalog, pages, header, id]: state is "absent",
\* "partial" (created, not completely written) or "complete"; header is the
\* version in its first line; id is the file identifier of its trailer, 0
\* when it has none.
NoFile == [state |-> "absent", catalog |-> {}, pages |-> <<>>, header |-> "", id |-> 0]
NoDir == <<>>
IdleBatch ==
    /\ in_dir = NoDir /\ out_dir_split = NoDir /\ out_dir_clean = NoDir
    /\ archive = NoDir /\ every = 0 /\ clean = FALSE /\ fallback = FALSE
    /\ archiving = FALSE /\ pdfs = <<>> /\ doc_no = 0 /\ dpc = "idle"
    /\ batch_parts = <<>> /\ part_ix = 0 /\ saves = 0 /\ faults = 0 /\ log = <<>>
IdleClean ==
    /\ clean_src = NoFile /\ dst_pdf = NoFile /\ fallback_on_all_blank = FALSE
    /\ cpc = "idle" /\ clean_reader = <<>> /\ clean_writer = NoWriter
    /\ pno = 0 /\ removed = 0 /\ kept = 0
IdleStrip ==
    /\ pdf = NoPdf /\ tool = "idle" /\ runs = 0 /\ once = NoPdf
IdleArchive ==
    /\ archive_dir = NoDir /\ collision = "idle" /\ now = 0 /\ moved = 0
    /\ returned_path = <<0, 0>>
IdleEnsure ==
    /\ path_file = NoFile /\ temp_file = NoFile /\ epc = "idle" /\ before = NoFile
    /\ failed_at = "none" /\ logged = FALSE
IdleWorkflow ==
    /\ steps = <<>> /\ dry_run = FALSE /\ step_idx = 0 /\ completed_steps = {}
    /\ wpc = "idle" /\ result = "none" /\ executed_steps = {} /\ succeeded_steps = {}
    /\ post_ran = FALSE

-----------------------------------------------------------------------------
(* Bounds of the model *)

\* longest chain of objects the generated graphs hold
MaxChain == 7
\* most page-tree nodes on a generated parent chain
MaxNodes == 12
\* most entries of a generated embedded-object map
MaxEntries == 2
\* longest extracted text of a generated page, in characters
MaxText == 2
\* longest content stream of a generated page, in bytes
MaxBytes == 2
\* most pages of a document handed to the tag stripper
MaxStripPages == 2
\* deepest nesting of objects below the catalog of a generated document
MaxNesting == 5
\* most pages of a part handed to the blank-page remover
MaxCleanPages == 3
\* most source documents in the input directory of a batch
MaxDocs == 2
\* most operations that fail during one batch
MaxFaults == 2
\* most pages of a generated source document
MaxPages == 5
\* largest group size passed to the splitter
MaxGroup == 3
\* the interpreter's recursion limit (sys.getrecursionlimit()), scaled down:
\* the deepest nesting of page_has_images calls before RecursionError
RecursionLimit == 4

(* Program constants *)

\* def _resolve(obj, max_hops: int = 5)
DefaultMaxHops == 5
\* while cur is not None and hops < 10
MaxParentHops == 10

-----------------------------------------------------------------------------
(* The object model *)

\* Python's None: also what dict.get returns for an absent key (objects are
\* numbered from 1)
None == 0
\* the outcome of a call that raises
Raises == -1

\* an object with every field absent
EmptyObject(kind) ==
    [kind |-> kind, target |-> None, parent |-> None, resources |-> None,
     xobject |-> None, subtype |-> "absent", items |-> <<>>]

RefTo(t) == [EmptyObject("ref") EXCEPT !.target = t]

\* hasattr(obj, "get_object")
HasGetObject(o) == o # None /\ heap[o].kind # "scalar"

\* obj.get_object(): an indirect handle yields its target (an object, None,
\* or a failure); every other pypdf object yields itself
GetObject(o) == IF heap[o].kind = "ref" THEN heap[o].target ELSE o

-----------------------------------------------------------------------------
(* _resolve *)

\* for _ in range(max_hops)
LoopGuardOffByOne(h, m) == h <= m
LoopGuard(h, m) == h < m

\* if nxt is obj or nxt is None: break
StopsAtSelfOnly(o, nxt) == nxt = o
StopsAt(o, nxt) == nxt = o \/ nxt = None

\* except Exception: return obj
OnExceptionOriginal(o, first) == [obj |-> first, ctl |-> "except"]
OnException(o, first) == [obj |-> o, ctl |-> "except"]

\* one iteration of the loop body, with the handler around it
ResolveIter(o, first) ==
    IF ~HasGetObject(o)
    THEN [obj |-> o, ctl |-> "break"]
    ELSE LET nxt == GetObject(o) IN
         IF nxt = Raises THEN OnException(o, first)
         ELSE IF StopsAt(o, nxt) THEN [obj |-> o, ctl |-> "break"]
         ELSE [obj |-> nxt, ctl |-> "next"]

\* the whole loop, from iteration h on: the value returned and how
RECURSIVE ResolveRun(_, _, _, _)
ResolveRun(o, first, h, m) ==
    IF ~LoopGuard(h, m) THEN [obj |-> o, ctl |-> "exhausted"]
    ELSE LET r == ResolveIter(o, first) IN
         IF r.ctl = "next" THEN ResolveRun(r.obj, first, h + 1, m) ELSE r

\* the value _resolve(obj) returns, with the default hop bound
_resolve(o) == ResolveRun(o, o, 0, DefaultMaxHops).obj

\* whether that call met a failing step (which its handler swallowed)
ResolveFailed(o) == ResolveRun(o, o, 0, DefaultMaxHops).ctl = "except"

\* the loop of _resolve, one iteration per step
ResolveStep ==
    /\ rpc = "loop"
    /\ LoopGuard(hop, max_hops)
    /\ LET r == ResolveIter(obj, arg) IN
        /\ obj' = r.obj
        /\ rpc' = IF r.ctl = "next" THEN "loop" ELSE r.ctl
        /\ trail' = IF r.ctl = "next" THEN Append(trail, r.obj) ELSE trail
    /\ hop' = hop + 1
    /\ UNCHANGED <<heap, arg, max_hops, NotResolve>>

\* the range is used up: return obj
ResolveReturn ==
    /\ rpc = "loop"
    /\ ~LoopGuard(hop, max_hops)
    /\ rpc' = "exhausted"
    /\ UNCHANGED <<heap, arg, obj, max_hops, hop, trail, NotResolve>>

\* A handle graph as one walk can see it: objects 1..len, each handle
\* pointing at the next, and the last object one of: a dictionary, a plain
\* value, a handle to nothing, a handle whose resolution fails, or a handle
\* back to object j (j = len is the self-reference)
ChainTails(len) == {<<"dict">>, <<"scalar">>, <<"none">>, <<"raises">>}
                   \cup {<<"back", j>> : j \in 1..len}

ChainHeap(len, tail) ==
    [i \in 1..len |->
        IF i < len THEN RefTo(i + 1)
        ELSE CASE tail[1] = "dict" -> EmptyObject("dict")
               [] tail[1] = "scalar" -> EmptyObject("scalar")
               [] tail[1] = "none" -> RefTo(None)
               [] tail[1] = "raises" -> RefTo(Raises)
               [] tail[1] = "back" -> RefTo(tail[2])]

InitResolve ==
    /\ \E len \in 1..MaxChain : \E tail \in ChainTails(len) :
          heap = ChainHeap(len, tail)
    /\ arg \in {1, None}
    /\ obj = arg
    /\ max_hops \in 0..DefaultMaxHops
    /\ hop = 0
    /\ rpc = "loop"
    /\ trail = <<arg>>
    /\ IdleInherit /\ IdleImages /\ IdleBlank /\ IdleSplit /\ IdleStrip /\ IdleClean /\ IdleBatch /\ IdleArchive /\ IdleEnsure /\ IdleWorkflow

NextResolve == ResolveStep \/ ResolveReturn

\* the call runs to its return: nothing suspends it
SpecResolve == InitResolve /\ [][NextResolve]_vars /\ WF_vars(NextResolve)

Returned == rpc \in {"break", "exhausted", "except"}

\* the stepwise loop and the operator the other functions call agree
ResolveStepsAgree ==
    Returned => /\ obj = ResolveRun(arg, arg, 0, max_hops).obj
                /\ rpc = ResolveRun(arg, arg, 0, max_hops).ctl

\* the identities seen in this resolution before the current step
Seen == {trail[i] : i \in DOMAIN trail}

\* C1: on every handle graph, cyclic or not, _resolve returns, after at most
\* max_hops iterations and so at most max_hops indirections followed, with a
\* value (an object or None) and no error.
C1_ResolveTerminates ==
    <>(/\ Returned
       /\ hop <= max_hops
       /\ Len(trail) - 1 <= max_hops
       /\ obj \in (DOMAIN heap) \cup {None})

\* C1 witness: the default bound cuts a walk round a cycle longer than it
C1_Witness ==
    /\ rpc = "exhausted"
    /\ max_hops = DefaultMaxHops
    /\ hop = DefaultMaxHops
    /\ Len(heap) > DefaultMaxHops
    /\ heap[Len(heap)].target = 1

\* C2 as stated: a step that yields an identity seen earlier in the same
\* resolution, or None, ends the resolution at that step, the value held so
\* far being returned without an error.
C2_StopsOnAnySeenIdentity ==
    [][(/\ rpc = "loop"
        /\ LoopGuard(hop, max_hops)
        /\ HasGetObject(obj)
        /\ GetObject(obj) \in Seen \cup {None})
       => (rpc' = "break" /\ obj' = obj)]_vars

\* C2 amended: a step that yields the very object it was applied to (a
\* self-reference), or None, ends the resolution at that step with the value
\* held so far; an earlier, different identity is not recognised.
C2_StopsOnSelfOrNone ==
    [][(/\ rpc = "loop"
        /\ LoopGuard(hop, max_hops)
        /\ HasGetObject(obj)
        /\ GetObject(obj) \in {obj, None})
       => (rpc' = "break" /\ obj' = obj /\ trail' = trail)]_vars

\* C2 witness: a self-referencing handle reached after a hop stopped the walk
C2_Witness ==
    /\ rpc = "break"
    /\ Len(trail) >= 2
    /\ heap[obj].kind = "ref"
    /\ heap[obj].target = obj

\* C3 as stated: whatever the hop at which a step fails, the caller gets the
\* value that was passed in.
C3_FailureReturnsOriginal ==
    /\ rpc \in {"loop", "break", "exhausted", "except"}
    /\ (rpc = "except" => obj = arg)

\* C3 amended: _resolve never raises (every exit is a return), and when a
\* step fails the caller gets
\* the last value reached before the failing step (the value passed in when
\* it is the first step that fails).
C3_FailureReturnsLastReached ==
    /\ rpc \in {"loop", "break", "exhausted", "except"}
    /\ (rpc = "except" =>
          /\ obj = trail[Len(trail)]
          /\ GetObject(obj) = Raises
          /\ (Len(trail) = 1 => obj = arg))

\* C3 witness: the failure came after a hop, so the value returned is not
\* the one passed in
C3_Witness == rpc = "except" /\ Len(trail) >= 2 /\ obj # arg

-----------------------------------------------------------------------------
(* _get_inherited *)

\* isinstance(cur, dict)
IsDict(o) == o # None /\ heap[o].kind = "dict"

\* whether o.get(key) works: it raises on an object that is no mapping
CanGet(o) == o # None /\ heap[o].kind \in {"dict", "maplike"}

\* while cur is not None and hops < 10
WhileGuardOffByOne(c, h) == c # None /\ h <= MaxParentHops
WhileGuard(c, h) == c # None /\ h < MaxParentHops

\* return _resolve(cur.get(name_key)) / return _resolve(val)
ReturnValueUnresolved(v) == v
ReturnValue(v) == _resolve(v)

\* one iteration of the loop body. ctl is "return" (val is returned), "next"
\* (cur moves to the resolved /Parent) or "break" (the outer handler)
InheritIter(c) ==
    IF IsDict(c)
    THEN IF heap[c].resources # None
         THEN [ctl |-> "return", val |-> ReturnValue(heap[c].resources), cur |-> c]
         ELSE [ctl |-> "next", val |-> None, cur |-> _resolve(heap[c].parent)]
    ELSE LET val == IF CanGet(c) THEN heap[c].resources ELSE None IN
         IF val # None
         THEN [ctl |-> "return", val |-> ReturnValue(val), cur |-> c]
         ELSE IF CanGet(c)
              THEN [ctl |-> "next", val |-> None, cur |-> _resolve(heap[c].parent)]
              ELSE [ctl |-> "break", val |-> None, cur |-> c]

RECURSIVE InheritFrom(_, _)
InheritFrom(c, h) ==
    IF ~WhileGuard(c, h) THEN None
    ELSE LET r == InheritIter(c) IN
         CASE r.ctl = "return" -> r.val
           [] r.ctl = "break" -> None
           [] r.ctl = "next" -> InheritFrom(r.cur, h + 1)

\* the value _get_inherited(page_like, "/Resources") returns
_get_inherited(p) == InheritFrom(_resolve(p), 0)

\* the loop of _get_inherited, one iteration per step
InheritStep ==
    /\ ipc = "loop"
    /\ WhileGuard(cur, hops)
    /\ LET r == InheritIter(cur) IN
        /\ cur' = r.cur
        /\ hops' = IF r.ctl = "next" THEN hops + 1 ELSE hops
        /\ ipc' = CASE r.ctl = "return" -> "found"
                    [] r.ctl = "break" -> "notfound"
                    [] r.ctl = "next" -> "loop"
        /\ found' = r.val
    /\ UNCHANGED <<heap, page_like, NotInherit>>

\* the loop condition fails: return None
InheritReturnNone ==
    /\ ipc = "loop"
    /\ ~WhileGuard(cur, hops)
    /\ ipc' = "notfound"
    /\ found' = None
    /\ UNCHANGED <<heap, page_like, cur, hops, NotInherit>>

\* A page tree as one walk up can see it: nodes 1..len, node i+1 the parent
\* of node i, the nodes in `defs` holding a resource table, and the last
\* node's /Parent one of: absent, a plain value, a handle that cannot be
\* resolved, or node j again (a cycle). With `via`, /Parent and /Resources
\* hold indirect handles, as PDF files usually store them, else the objects
\* themselves. Layout: nodes 1..len, tables len+1..2len, /Parent handles
\* 2len+1..3len, /Resources handles 3len+1..4len, one spare object 4len+1.
TreeTails(len) == {<<"none">>, <<"scalar">>, <<"dangling">>}
                  \cup {<<"back", j>> : j \in 1..len}

TreeHeap(len, defs, tail, via, kind) ==
    LET Link(i) == IF i < len THEN i + 1
                   ELSE IF tail[1] = "back" THEN tail[2] ELSE None
        ParentOf(i) ==
            IF i = len /\ tail[1] = "none" THEN None
            ELSE IF i = len /\ tail[1] \in {"scalar", "dangling"} THEN 4 * len + 1
            ELSE IF via THEN 2 * len + i ELSE Link(i)
    IN [o \in 1..(4 * len + 1) |->
          IF o <= len
          THEN [EmptyObject(kind) EXCEPT
                  !.parent = ParentOf(o),
                  !.resources = IF o \in defs
                                THEN (IF via THEN 3 * len + o ELSE len + o)
                                ELSE None]
          ELSE IF o <= 2 * len THEN EmptyObject("dict")
          ELSE IF o <= 3 * len THEN RefTo(Link(o - 2 * len))
          ELSE IF o <= 4 * len THEN RefTo(o - 2 * len)
          ELSE IF tail[1] = "dangling" THEN RefTo(Raises)
          ELSE EmptyObject("scalar")]

\* at most two nodes hold the attribute: the nearest, and one behind it
DefSets(len) == {d \in SUBSET (1..len) : Cardinality(d) <= 2}

InitInherit ==
    /\ \E len \in 0..MaxNodes : \E defs \in DefSets(len) :
       \E tail \in TreeTails(len) \cup {<<"none">>} :
       \E via \in BOOLEAN : \E kind \in {"dict", "maplike"} :
          /\ heap = TreeHeap(len, defs, tail, via, kind)
          /\ page_like = IF len = 0 THEN None ELSE 1
    /\ cur = _resolve(page_like)
    /\ hops = 0
    /\ ipc = "loop"
    /\ found = None
    /\ IdleResolve /\ IdleImages /\ IdleBlank /\ IdleSplit /\ IdleStrip /\ IdleClean /\ IdleBatch /\ IdleArchive /\ IdleEnsure /\ IdleWorkflow

NextInherit == InheritStep \/ InheritReturnNone

\* the call runs to its return: nothing suspends it
SpecInherit == InitInherit /\ [][NextInherit]_vars /\ WF_vars(NextInherit)

InheritReturned == ipc \in {"found", "notfound"}

\* the stepwise loop and the operator is_blank_page calls agree
InheritStepsAgree == InheritReturned => found = _get_inherited(page_like)

\* The page's parent chain, as the reference resolver follows it: the node
\* itself, then the resolved /Parent of each node that is a mapping. The
\* nearest node that holds the attribute among the first `fuel` nodes of the
\* chain starting at c, or None.
RECURSIVE NearestDefiner(_, _)
NearestDefiner(c, fuel) ==
    IF fuel = 0 \/ ~CanGet(c) THEN None
    ELSE IF heap[c].resources # None THEN c
    ELSE NearestDefiner(_resolve(heap[c].parent), fuel - 1)

\* what a lookup that examines the first `fuel` nodes is to return
InheritedWithin(p, fuel) ==
    LET d == NearestDefiner(_resolve(p), fuel) IN
    IF d = None THEN None ELSE _resolve(heap[d].resources)

\* C4 as stated: the lookup returns the resolved value of the nearest node
\* of the whole parent chain that defines the attribute, and None when no
\* node of the chain defines it.
C4_NearestOnWholeChain ==
    InheritReturned => found = InheritedWithin(page_like, Len(heap) + 1)

\* C4 amended: the lookup returns the resolved value of the nearest defining
\* node among the first 10 nodes of the chain (the page and its 9 nearest
\* ancestors), and None, without raising, when none of these defines it.
C4_NearestWithinBound ==
    InheritReturned => found = InheritedWithin(page_like, MaxParentHops)

\* C4 witness: the value came from an ancestor, the page itself holding none
C4_Witness ==
    /\ ipc = "found"
    /\ hops >= 1
    /\ found # None
    /\ heap[page_like].resources = None

\* C5: the lookup returns on every chain, cyclic or longer than the bound,
\* after at most 10 hops, and with None when none of the nodes examined
\* within the bound defines the attribute.
C5_InheritTerminates ==
    <>(/\ InheritReturned
       /\ hops <= MaxParentHops
       /\ (NearestDefiner(_resolve(page_like), MaxParentHops) = None
             => ipc = "notfound" /\ found = None))

\* C5 witness: a walk round a cycle was cut after 10 hops, back at the page
C5_Witness ==
    /\ ipc = "notfound"
    /\ hops = MaxParentHops
    /\ cur = page_like
    /\ found = None

-----------------------------------------------------------------------------
(* page_has_images *)

\* `not resources`: None, or a dictionary without any entry
Falsy(o) ==
    \/ o = None
    \/ /\ heap[o].kind = "dict"
       /\ heap[o].parent = None /\ heap[o].resources = None
       /\ heap[o].xobject = None /\ heap[o].subtype = "absent"
       /\ heap[o].items = <<>>

\* a non-dict entry whose x.get(...) raises: `except Exception: continue`,
\* so the answer is that of the rest of the loop
OnUnreadableEntryStop(rest) == [val |-> FALSE, fail |-> TRUE]
OnUnreadableEntry(rest) == [val |-> rest.val, fail |-> TRUE]

\* nested = _resolve(x.get("/Resources")) if isinstance(x, dict) else None
NestedOf(x) == IF IsDict(x) THEN _resolve(heap[x].resources) ELSE None

\* the outer handler: `except Exception: return True`
OuterExcept == [val |-> TRUE, fail |-> TRUE]

\* whether the call `page_has_images(nested)` made by the frame at nesting
\* depth `depth` raises RecursionError: the function keeps no count and no
\* visited set of its own, the interpreter's limit alone ends the descent
OverflowsLate(depth) == depth > RecursionLimit
Overflows(depth) == depth >= RecursionLimit

\* page_has_images(resources) called at nesting depth `depth`: val is the
\* answer, fail tells whether an exception was raised (and handled) while
\* the tables and entries were inspected, a failing step inside _resolve
\* included. ScanItems is the for loop from entry i on.
RECURSIVE PageHasImagesAt(_, _)
RECURSIVE ScanItems(_, _, _)
PageHasImagesAt(r0, depth) ==
    IF Falsy(r0) THEN [val |-> FALSE, fail |-> FALSE]
    ELSE LET res == _resolve(r0)
             xobjs == IF IsDict(res) THEN _resolve(heap[res].xobject) ELSE None
             failed == \/ ResolveFailed(r0)
                       \/ IsDict(res) /\ ResolveFailed(heap[res].xobject)
         IN IF ~IsDict(xobjs) THEN [val |-> FALSE, fail |-> failed]
            ELSE LET r == ScanItems(heap[xobjs].items, 1, depth)
                 IN [val |-> r.val, fail |-> failed \/ r.fail]

ScanItems(items, i, depth) ==
    IF i > Len(items) THEN [val |-> FALSE, fail |-> FALSE]
    ELSE LET x == _resolve(items[i])
             xfail == ResolveFailed(items[i])
         IN
         IF ~CanGet(x)
         THEN OnUnreadableEntry(ScanItems(items, i + 1, depth))
         ELSE LET subtype == heap[x].subtype IN
              IF subtype = "unprintable" THEN OuterExcept
              ELSE IF subtype = "/Image" THEN [val |-> TRUE, fail |-> xfail]
              ELSE IF subtype = "/Form"
              THEN IF Overflows(depth) THEN OuterExcept
                   ELSE LET sub == PageHasImagesAt(NestedOf(x), depth + 1)
                            nfail == xfail \/ sub.fail
                                     \/ (IsDict(x) /\ ResolveFailed(heap[x].resources))
                        IN IF sub.val THEN [val |-> TRUE, fail |-> nfail]
                           ELSE LET r == ScanItems(items, i + 1, depth)
                                IN [val |-> r.val, fail |-> nfail \/ r.fail]
              ELSE LET r == ScanItems(items, i + 1, depth)
                   IN [val |-> r.val, fail |-> xfail \/ r.fail]

page_has_images(r) == PageHasImagesAt(r, 1)

\* the deepest nesting depth at which a frame of page_has_images runs when
\* PageHasImagesAt(r0, depth) is computed: the scan of a table stops at the
\* entry that returns, and goes past a Form whose nested call returned False
RECURSIVE DeepestAt(_, _)
RECURSIVE DeepestScan(_, _, _)
DeepestAt(r0, depth) ==
    IF Falsy(r0) THEN depth
    ELSE LET res == _resolve(r0)
             xobjs == IF IsDict(res) THEN _resolve(heap[res].xobject) ELSE None
         IN IF ~IsDict(xobjs) THEN depth
            ELSE DeepestScan(heap[xobjs].items, 1, depth)

DeepestScan(items, i, depth) ==
    IF i > Len(items) THEN depth
    ELSE LET x == _resolve(items[i]) IN
         IF ~CanGet(x)
         THEN (IF OnUnreadableEntry([val |-> TRUE, fail |-> FALSE]).val
               THEN DeepestScan(items, i + 1, depth) ELSE depth)
         ELSE LET subtype == heap[x].subtype IN
              IF subtype \in {"unprintable", "/Image"} THEN depth
              ELSE IF subtype = "/Form"
              THEN IF Overflows(depth) THEN depth
                   ELSE LET below == DeepestAt(NestedOf(x), depth + 1)
                            rest == DeepestScan(items, i + 1, depth)
                        IN IF PageHasImagesAt(NestedOf(x), depth + 1).val
                           THEN below
                           ELSE IF below > rest THEN below ELSE rest
              ELSE DeepestScan(items, i + 1, depth)

CallPageHasImages ==
    /\ hpc = "call"
    /\ hpc' = "returned"
    /\ has_images' = page_has_images(resources)
    /\ UNCHANGED <<heap, resources, NotImages>>

\* The kinds of entry an embedded-object map is generated from:
\*   "image"       a dictionary with /Subtype /Image
\*   "form"        a dictionary with /Subtype /Form and nested /Resources
\*   "other"       a dictionary without /Subtype
\*   "dangling"    a handle whose resolution fails
\*   "mapform"     like "form", but a mapping that is no dict
\*   "mapimage"    like "image", but a mapping that is no dict
\*   "unprintable" a dictionary whose /Subtype cannot be read as a string
EntryKinds == {"image", "form", "other", "dangling", "mapform", "mapimage",
               "unprintable"}
NestedEntryKinds == {"image", "form"}

SeqsUpTo(S, max) == UNION {[1..k -> S] : k \in 0..max}

\* what the Forms of the second table nest: nothing, the first table or
\* their own table again (cycles), a third table holding one image, or an
\* empty third table
Nestings == {"none", "t1", "t2", "t3image", "t3empty"}

\* Resource tables 1..3 (objects 1..3), their embedded-object maps (4..6),
\* handles to the tables (7..9) and to the maps (10..12), a page (13) and
\* its parent (14), handles to them (15, 16), then two objects per entry
\* slot: the entry and a handle to it. The Forms of table 1 nest table 2,
\* those of table 2 nest what `nesting` says. With `via`, every reference
\* between objects is an indirect handle. `where` says which node holds
\* table 1 as its /Resources: "page", "parent" or "nowhere".
EntryBase == 16
EntryObj(t, i) == EntryBase + 2 * ((t - 1) * (MaxEntries + 1) + (i - 1)) + 1
HeapSize == EntryBase + 2 * 3 * (MaxEntries + 1)

ImageHeap(top, e1, e2, nesting, via, where) ==
    LET Link(o) == IF via THEN
                      (IF o <= 3 THEN o + 6
                       ELSE IF o <= 6 THEN o + 6
                       ELSE IF o <= 14 THEN o + 2
                       ELSE o + 1)
                   ELSE o
        Entries(t) == CASE t = 1 -> e1
                        [] t = 2 -> e2
                        [] t = 3 -> IF nesting = "t3image" THEN <<"image">> ELSE <<>>
        NestOf(t) == CASE t = 1 -> 2
                       [] t = 2 -> (CASE nesting = "none" -> None
                                      [] nesting = "t1" -> 1
                                      [] nesting = "t2" -> 2
                                      [] OTHER -> 3)
                       [] t = 3 -> None
        Entry(t, k) ==
            CASE k = "image" -> [EmptyObject("dict") EXCEPT !.subtype = "/Image"]
              [] k = "mapimage" -> [EmptyObject("maplike") EXCEPT !.subtype = "/Image"]
              [] k = "other" -> EmptyObject("dict")
              [] k = "dangling" -> RefTo(Raises)
              [] k = "unprintable" -> [EmptyObject("dict") EXCEPT !.subtype = "unprintable"]
              [] k \in {"form", "mapform"} ->
                    [EmptyObject(IF k = "form" THEN "dict" ELSE "maplike") EXCEPT
                       !.subtype = "/Form",
                       !.resources = IF NestOf(t) = None THEN None ELSE Link(NestOf(t))]
        Slot(o) == (o - EntryBase - 1) \div 2
        SlotTable(o) == (Slot(o) \div (MaxEntries + 1)) + 1
        SlotIndex(o) == (Slot(o) % (MaxEntries + 1)) + 1
    IN [o \in 1..HeapSize |->
          IF o <= 3
          THEN [EmptyObject(IF o = 1 THEN top ELSE "dict") EXCEPT !.xobject = Link(o + 3)]
          ELSE IF o <= 6
          THEN [EmptyObject("dict") EXCEPT
                  !.items = [i \in 1..Len(Entries(o - 3)) |-> Link(EntryObj(o - 3, i))]]
          ELSE IF o <= 12 THEN RefTo(o - 6)
          ELSE IF o = 13
          THEN [EmptyObject("dict") EXCEPT
                  !.parent = Link(14),
                  !.resources = IF where = "page" THEN Link(1) ELSE None]
          ELSE IF o = 14
          THEN [EmptyObject("dict") EXCEPT
                  !.resources = IF where = "parent" THEN Link(1) ELSE None]
          ELSE IF o <= 16 THEN RefTo(o - 2)
          ELSE IF (o - EntryBase) % 2 = 0 THEN RefTo(o - 1)
          ELSE IF SlotIndex(o) <= Len(Entries(SlotTable(o)))
               THEN Entry(SlotTable(o), Entries(SlotTable(o))[SlotIndex(o)])
               ELSE EmptyObject("scalar")]

InitImages ==
    /\ \E top \in {"dict", "maplike", "none"} :
       \E e1 \in SeqsUpTo(EntryKinds, MaxEntries) :
       \E e2 \in SeqsUpTo(NestedEntryKinds, MaxEntries) :
       \E nesting \in Nestings : \E via \in BOOLEAN :
          /\ heap = ImageHeap(IF top = "none" THEN "dict" ELSE top,
                              e1, e2, nesting, via, "page")
          /\ resources = IF top = "none" THEN None ELSE IF via THEN 7 ELSE 1
    /\ hpc = "call"
    /\ has_images = [val |-> FALSE, fail |-> FALSE]
    /\ IdleResolve /\ IdleInherit /\ IdleBlank /\ IdleSplit /\ IdleStrip /\ IdleClean /\ IdleBatch /\ IdleArchive /\ IdleEnsure /\ IdleWorkflow

NextImages == CallPageHasImages

SpecImages == InitImages /\ [][NextImages]_vars

ImagesReturned == hpc = "returned"

\* What a resource table holds, read off the heap. With `strict`, only
\* objects that are dict instances count as tables, maps and Forms; without,
\* every mapping does.
Mapping(o, strict) == IF strict THEN IsDict(o) ELSE CanGet(o)

EntriesOf(t, strict) ==
    LET r == _resolve(t)
        m == IF Mapping(r, strict) THEN _resolve(heap[r].xobject) ELSE None
    IN IF Mapping(m, strict)
       THEN {_resolve(heap[m].items[i]) : i \in DOMAIN heap[m].items}
       ELSE {}

IsImageEntry(x) == CanGet(x) /\ heap[x].subtype = "/Image"
IsFormEntry(x, strict) == Mapping(x, strict) /\ heap[x].subtype = "/Form"

\* table t holds an Image entry, directly or through at most `fuel` Forms
RECURSIVE HoldsImage(_, _, _)
HoldsImage(t, strict, fuel) ==
    /\ t # None
    /\ \E x \in EntriesOf(t, strict) :
          \/ IsImageEntry(x)
          \/ /\ fuel > 0
             /\ IsFormEntry(x, strict)
             /\ HoldsImage(heap[x].resources, strict, fuel - 1)

\* table t holds a Form entry whose nested table holds an Image entry,
\* directly or through further nested Forms
FormHoldsImage(t, strict) ==
    /\ t # None
    /\ \E x \in EntriesOf(t, strict) :
          IsFormEntry(x, strict) /\ HoldsImage(heap[x].resources, strict, 3)

\* C6 as stated: whenever the table's embedded-object map holds a Form entry
\* whose nested resources hold, directly or through further Forms, an Image
\* entry, page_has_images answers true.
C6_FormImageDetected ==
    (ImagesReturned /\ FormHoldsImage(resources, FALSE)) => has_images.val

\* C6 amended: the same, for tables, embedded-object maps and Form entries
\* that resolve to dict instances; whatever the other entries and their order.
C6_DictFormImageDetected ==
    (ImagesReturned /\ FormHoldsImage(resources, TRUE)) => has_images.val

\* C6 witness: an image found only through a Form nested in a Form, in a
\* table that holds a second entry too, and with no failure on the way
C6_Witness ==
    /\ ImagesReturned
    /\ has_images = [val |-> TRUE, fail |-> FALSE]
    /\ FormHoldsImage(resources, TRUE)
    /\ ~HoldsImage(resources, TRUE, 1)
    /\ Cardinality(EntriesOf(resources, TRUE)) = 2

\* C7: whenever a failure was met while the entries were inspected (while
\* resolving an entry, reading its Subtype, or descending into its nested
\* resources), page_has_images answers true.
C7_FailureMeansImage ==
    (ImagesReturned /\ has_images.fail) => has_images.val

-----------------------------------------------------------------------------
(* is_blank_page *)

\* A page is [node, text, contents, fails]: its object in the heap, the text
\* extract_text() yields when it works (a sequence of characters, each
\* "A" alphanumeric by the pattern [0-9A-Za-z...], "P" other visible, or
\* "W" whitespace), what get_contents() yields when it works, and which
\* measurement raises: "none", "text" or "contents".

\* txt = page.extract_text() or "" / except Exception: txt = ""
ExtractText(p) == IF p.fails = "text" THEN <<>> ELSE p.text

RECURSIVE CountIn(_, _)
CountIn(txt, S) ==
    IF txt = <<>> THEN 0
    ELSE (IF Head(txt) \in S THEN 1 ELSE 0) + CountIn(Tail(txt), S)

\* len(alnum_re.findall(text))
count_alnum(txt) == CountIn(txt, {"A"})

\* sum(1 for c in txt if not c.isspace())
NonWsChars(txt) == CountIn(txt, {"A", "P"})

\* len(txt.strip())
RECURSIVE LStrip(_)
LStrip(txt) == IF txt # <<>> /\ Head(txt) = "W" THEN LStrip(Tail(txt)) ELSE txt
RECURSIVE RStripLen(_)
RStripLen(txt) ==
    IF txt # <<>> /\ txt[Len(txt)] = "W" THEN RStripLen(SubSeq(txt, 1, Len(txt) - 1))
    ELSE Len(txt)
StripLen(txt) == RStripLen(LStrip(txt))

\* A content stream is its decoded length; an object of the contents that
\* has no get_data is written as a negative number.
HasGetData(c) == c >= 0

RECURSIVE SumData(_)
SumData(cs) ==
    IF cs = <<>> THEN 0
    ELSE (IF HasGetData(Head(cs)) THEN Head(cs) ELSE 0) + SumData(Tail(cs))

\* except Exception: return 0
OnMeasureFailure == 0

content_stream_bytes(p) ==
    IF p.fails = "contents" THEN OnMeasureFailure
    ELSE CASE p.contents.kind = "none" -> 0
           [] p.contents.kind = "list" -> SumData(p.contents.streams)
           [] p.contents.kind = "single" -> SumData(p.contents.streams)

\* alnum_ratio >= min_alnum_ratio, the ratio being alnum_count / non_ws_chars
\* when there is a visible character and 0.0 when there is none; the
\* threshold is the fraction num/den
RatioAtLeast(alnum, non_ws, r) ==
    IF non_ws # 0 THEN alnum * r.den >= r.num * non_ws ELSE 0 >= r.num

\* if stream_bytes > min_stream_bytes
ExceedsOrEquals(bytes, min) == bytes >= min
Exceeds(bytes, min) == bytes > min

\* if len(txt.strip()) >= text_len_threshold and alnum_count == 0: pass
\* whether the block returns NON-BLANK when its condition holds: its body is
\* `pass`, it never does
VisibleTextBlockReturns(cond) == cond
VisibleTextBlock(cond) == FALSE

is_blank_page(p, th) ==
    LET txt == ExtractText(p)
        alnum_count == count_alnum(txt)
        non_ws_chars == NonWsChars(txt)
        stream_bytes == content_stream_bytes(p)
    IN IF alnum_count >= th.min_alnum_chars
          /\ RatioAtLeast(alnum_count, non_ws_chars, th.min_alnum_ratio)
       THEN [blank |-> FALSE, reason |-> "alnum_threshold"]
       ELSE IF VisibleTextBlock(StripLen(txt) >= th.text_len_threshold
                                /\ alnum_count = 0)
       THEN [blank |-> FALSE, reason |-> "visible_text"]
       ELSE IF Exceeds(stream_bytes, th.min_stream_bytes)
       THEN [blank |-> FALSE, reason |-> "stream_bytes"]
       ELSE IF th.treat_any_image_as_nonblank
               /\ page_has_images(_get_inherited(p.node)).val
       THEN [blank |-> FALSE, reason |-> "image_found"]
       ELSE [blank |-> TRUE, reason |-> "below_thresholds"]

CallIsBlankPage ==
    /\ bpc = "call"
    /\ bpc' = "returned"
    /\ verdict' = is_blank_page(page, thresholds)
    /\ UNCHANGED <<heap, page, thresholds, NotBlank>>

\* A page (object 1) under its parent (2), one resource table (3) with its
\* embedded-object map (4) of at most one entry (5), and handles to the
\* parent (6), the table (7), the map (8), the entry (9) and to nothing that
\* resolves (10). `where` says which node holds the table as /Resources:
\* "page", "parent", "nowhere", or "dangling" (the page holds a handle that
\* cannot be resolved).
PageHeap(where, entry) ==
    <<[EmptyObject("dict") EXCEPT
         !.parent = 6,
         !.resources = CASE where = "page" -> 7
                         [] where = "dangling" -> 10
                         [] OTHER -> None],
      [EmptyObject("dict") EXCEPT
         !.resources = IF where = "parent" THEN 7 ELSE None],
      [EmptyObject("dict") EXCEPT !.xobject = 8],
      [EmptyObject("dict") EXCEPT
         !.items = IF entry = "empty" THEN <<>> ELSE <<9>>],
      CASE entry = "image" -> [EmptyObject("dict") EXCEPT !.subtype = "/Image"]
        [] entry = "unprintable" -> [EmptyObject("dict") EXCEPT !.subtype = "unprintable"]
        [] entry = "dangling" -> RefTo(Raises)
        [] OTHER -> EmptyObject("dict"),
      RefTo(2), RefTo(3), RefTo(4), RefTo(5), RefTo(Raises)>>

PageResources ==
    {<<"nowhere", "empty">>, <<"dangling", "image">>}
    \cup {<<w, e>> : w \in {"page", "parent"},
                     e \in {"empty", "image", "dangling", "unprintable"}}

Texts == SeqsUpTo({"A", "P", "W"}, MaxText)

StreamLengths == (0..MaxBytes) \cup {-1}

Contents ==
    {[kind |-> "none", streams |-> <<>>]}
    \cup {[kind |-> "single", streams |-> <<c>>] : c \in StreamLengths}
    \cup {[kind |-> "list", streams |-> cs] :
            cs \in {<<>>, <<1, 1>>, <<-1, 1>>, <<MaxBytes, 1>>}}

Thresholds ==
    [text_len_threshold : {1, 2},
     min_alnum_chars : {1, 2},
     min_alnum_ratio : {[num |-> 1, den |-> 5], [num |-> 1, den |-> 1]},
     min_stream_bytes : {0, 1},
     treat_any_image_as_nonblank : BOOLEAN]

InitBlank ==
    /\ \E r \in PageResources : heap = PageHeap(r[1], r[2])
    /\ page \in [node : {1}, text : Texts, contents : Contents,
                 fails : {"none", "text", "contents"}]
    /\ thresholds \in Thresholds
    /\ bpc = "call"
    /\ verdict = [blank |-> FALSE, reason |-> "pending"]
    /\ IdleResolve /\ IdleInherit /\ IdleImages /\ IdleSplit /\ IdleStrip /\ IdleClean /\ IdleBatch /\ IdleArchive /\ IdleEnsure /\ IdleWorkflow

NextBlank == CallIsBlankPage

SpecBlank == InitBlank /\ [][NextBlank]_vars

Classified == bpc = "returned"

\* What the page really holds, measured without going through the
\* classifier's helpers: the characters of its text and the decoded bytes of
\* its content streams.
RECURSIVE Occurrences(_, _, _)
Occurrences(txt, S, i) ==
    IF i > Len(txt) THEN 0
    ELSE Occurrences(txt, S, i + 1) + (IF txt[i] \in S THEN 1 ELSE 0)
RECURSIVE DecodedLength(_, _)
DecodedLength(cs, i) ==
    IF i > Len(cs) THEN 0
    ELSE DecodedLength(cs, i + 1) + (IF cs[i] >= 0 THEN cs[i] ELSE 0)

\* The detector's answer on the page's inherited resource table.
ImagePresent == page_has_images(_get_inherited(page.node)).val

\* The four rules, in order, over the measured values.
BlankReference(alnumCount, nonWsCount, streamBytes, imagePresent, th) ==
    IF alnumCount >= th.min_alnum_chars
       /\ (IF nonWsCount = 0 THEN 0 ELSE alnumCount * th.min_alnum_ratio.den)
          >= (IF nonWsCount = 0 THEN th.min_alnum_ratio.num
              ELSE th.min_alnum_ratio.num * nonWsCount)
    THEN "NonBlank: alnum"
    ELSE IF streamBytes > th.min_stream_bytes THEN "NonBlank: stream"
    ELSE IF th.treat_any_image_as_nonblank /\ imagePresent THEN "NonBlank: image"
    ELSE "Blank"

VerdictName(v) ==
    CASE v.reason = "alnum_threshold" /\ ~v.blank -> "NonBlank: alnum"
      [] v.reason = "stream_bytes" /\ ~v.blank -> "NonBlank: stream"
      [] v.reason = "image_found" /\ ~v.blank -> "NonBlank: image"
      [] v.reason = "below_thresholds" /\ v.blank -> "Blank"
      [] OTHER -> "none"

Unfailing(p) == [p EXCEPT !.fails = "none"]

\* C9: when text extraction, stream measurement or image inspection fails,
\* the classifier does not raise and the page is not reported Blank because
\* of the failure: a page reported Blank after a failed text extraction or
\* stream measurement is also Blank when the measurement succeeds, and a page
\* whose verdict rests on a failed image inspection is not reported Blank.
C9_FailureNeverBlanks ==
    Classified /\ verdict.blank =>
        /\ page.fails # "none" => is_blank_page(Unfailing(page), thresholds).blank
        /\ thresholds.treat_any_image_as_nonblank =>
             ~page_has_images(_get_inherited(page.node)).fail

-----------------------------------------------------------------------------
(* strip_tags, scrub_markinfo_anywhere, _strip_tags_from_writer *)

\* A document is [catalog, pages, graph]. catalog is the set of tagging keys
\* its catalog holds. A page is a record with struct_parents and tabs (whether
\* it holds /StructParents and /Tabs) and annots: "none" when it has no
\* /Annots, "plain" for annotations without /StructParent, "tagged" for
\* annotations holding /StructParent, "unreadable" when /Annots cannot be
\* iterated. graph is the rest of what the catalog reaches: a sequence of
\* objects [kind, indirect, markinfo, kids], object 1 being the value of one
\* catalog key; kind is "dict", "stream" or "array", markinfo says whether the
\* object holds a /MarkInfo key, kids are the positions of its values/items.

CatalogKeys == {"/StructTreeRoot", "/MarkInfo", "/RoleMap", "/ClassMap"}

\* _walk(obj) at the given depth of the call stack, on the state
\* [graph, visited, entered]. A call beyond the interpreter's recursion limit
\* raises RecursionError, which the caller's `except Exception: pass`
\* swallows: the object is left as it is.
RECURSIVE Walk(_, _, _)
RECURSIVE WalkKids(_, _, _, _)
Walk(o, st, depth) ==
    IF depth > RecursionLimit THEN st
    ELSE IF st.graph[o].indirect /\ o \in st.visited THEN st
    ELSE LET node == st.graph[o]
             st1 == [st EXCEPT !.visited = IF node.indirect THEN @ \cup {o} ELSE @,
                               !.entered[o] = @ + 1]
         IN IF node.kind \in {"dict", "stream"}
            THEN WalkKids(node.kids, 1,
                          [st1 EXCEPT !.graph[o].markinfo = FALSE], depth)
            ELSE IF node.kind = "array"
            THEN WalkKids(node.kids, 1, st1, depth)
            ELSE st1
WalkKids(kids, i, st, depth) ==
    IF i > Len(kids) THEN st
    ELSE WalkKids(kids, i + 1, Walk(kids[i], st, depth + 1), depth)

\* _walk(pdf.Root): the catalog is entered first, its values one level below
WalkRoot(d) ==
    LET st0 == [graph |-> d.graph, visited |-> {},
                entered |-> [o \in 1..Len(d.graph) |-> 0]]
    IN IF d.graph = <<>> THEN st0 ELSE Walk(1, st0, 2)

scrub_markinfo_anywhere(d) ==
    [d EXCEPT !.catalog = @ \ {"/MarkInfo"}, !.graph = WalkRoot(d).graph]

\* strip_tags, steps 1 and 2: the catalog keys it deletes
StripTagsCatalogKeys == {"/StructTreeRoot", "/RoleMap", "/ClassMap", "/MarkInfo"}

\* strip_tags, step 3, on one page: /StructParents goes, and /StructParent
\* goes from each annotation
StripTagsPageEither(pg) ==
    IF pg.annots = "tagged" THEN [pg EXCEPT !.annots = "plain"]
    ELSE [pg EXCEPT !.struct_parents = FALSE]
StripTagsPage(pg) ==
    [pg EXCEPT !.struct_parents = FALSE,
               !.annots = IF @ = "tagged" THEN "plain" ELSE @]

\* for page in pdf.pages: ..., the whole loop inside one try: a page whose
\* /Annots cannot be iterated raises after its /StructParents was deleted,
\* and the pages after it are left as they are.
RECURSIVE StripTagsPages(_, _)
StripTagsPages(pages, i) ==
    IF i > Len(pages) THEN pages
    ELSE IF pages[i].annots = "unreadable"
    THEN [pages EXCEPT ![i].struct_parents = FALSE]
    ELSE StripTagsPages([pages EXCEPT ![i] = StripTagsPage(@)], i + 1)

strip_tags(d) ==
    scrub_markinfo_anywhere(
        [d EXCEPT !.catalog = @ \ StripTagsCatalogKeys,
                  !.pages = StripTagsPages(@, 1)])

\* _strip_tags_from_writer: the catalog keys and the page keys it deletes.
\* (Its second look at /MarkInfo finds nothing, the key being deleted.)
WriterCatalogKeys == {"/StructTreeRoot", "/MarkInfo", "/RoleMap"}

StripPage(pg) == [pg EXCEPT !.struct_parents = FALSE, !.tabs = FALSE]

_strip_tags_from_writer(w) ==
    [w EXCEPT !.catalog = @ \ WriterCatalogKeys,
              !.pages = [i \in 1..Len(w.pages) |-> StripPage(w.pages[i])]]

CallStripTags ==
    /\ tool = "strip_tags"
    /\ runs < 2
    /\ pdf' = strip_tags(pdf)
    /\ once' = IF runs = 0 THEN pdf' ELSE once
    /\ runs' = runs + 1
    /\ UNCHANGED <<tool, NotStrip>>

CallStripWriter ==
    /\ tool = "_strip_tags_from_writer"
    /\ runs < 2
    /\ pdf' = _strip_tags_from_writer(pdf)
    /\ once' = IF runs = 0 THEN pdf' ELSE once
    /\ runs' = runs + 1
    /\ UNCHANGED <<tool, NotStrip>>

\* Pages as a producer may have tagged them.
TaggedPages ==
    [src : {0}, struct_parents : BOOLEAN, tabs : BOOLEAN,
     annots : {"none", "tagged", "unreadable"}, content : {"text"}]

\* A chain of len objects below the catalog: object i holds object i + 1,
\* the last one holds a reference back to object back (0 for none, and only
\* an indirect object can be referred to twice); object arr is an array,
\* object strm a stream, object direct is a direct object, object mi holds a
\* /MarkInfo key.
GraphChain(len, arr, strm, direct, mi, back) ==
    [i \in 1..len |->
        [kind |-> IF i = arr THEN "array" ELSE IF i = strm THEN "stream" ELSE "dict",
         indirect |-> i # direct,
         markinfo |-> i = mi /\ i # arr,
         kids |-> IF i < len THEN <<i + 1>>
                  ELSE IF back # 0 /\ back # direct THEN <<back>> ELSE <<>>]]

GraphChains ==
    UNION {{GraphChain(len, arr, strm, direct, mi, back) :
                arr \in 0..len, strm \in 0..len, direct \in 0..len,
                mi \in 0..len, back \in 0..len} :
           len \in 1..MaxNesting}

InitStrip ==
    /\ tool \in {"strip_tags", "_strip_tags_from_writer"}
    /\ \/ /\ pdf \in [catalog : SUBSET CatalogKeys,
                      pages : SeqsUpTo(TaggedPages, MaxStripPages),
                      graph : {<<>>}]
       \/ /\ tool = "strip_tags"
          /\ pdf \in [catalog : {{}, {"/MarkInfo"}}, pages : {<<>>},
                      graph : GraphChains]
    /\ runs = 0
    /\ once = NoPdf
    /\ heap = <<>>
    /\ IdleResolve /\ IdleInherit /\ IdleImages /\ IdleBlank /\ IdleSplit /\ IdleClean /\ IdleBatch /\ IdleArchive /\ IdleEnsure /\ IdleWorkflow

NextStrip == CallStripTags \/ CallStripWriter

SpecStrip == InitStrip /\ [][NextStrip]_vars

Stripped == runs >= 1

-----------------------------------------------------------------------------
(* split_every_n_pages *)

\* A source page is [src, struct_parents]: its position in the source and
\* whether it carries page-level tagging keys. A file of the output directory
\* is [name, pages, complete]; its name is the part number in its path.

\* if n <= 0: raise ValueError
RejectsNegativeOnly(k) == k < 0
Rejects(k) == k <= 0

SplitCheckN ==
    /\ spc = "call"
    /\ spc' = IF Rejects(n) THEN "ValueError" ELSE "mkdir"
    /\ UNCHANGED <<src_pdf, n, out_dir, reader, idx, part_no, offset, writer, parts,
                   NotSplit>>

\* out_dir.mkdir(...); reader = PdfReader(...); parts = []; idx = 0; part_no = 1
SplitOpen ==
    /\ spc = "mkdir"
    /\ out_dir' = [out_dir EXCEPT !.exists = TRUE]
    /\ reader' = src_pdf
    /\ parts' = <<>>
    /\ idx' = 0
    /\ part_no' = 1
    /\ spc' = "while"
    /\ UNCHANGED <<src_pdf, n, offset, writer, NotSplit>>

total_pages == Len(reader)

\* while idx < total_pages: writer = _create_pdf_writer(); ... return parts
SplitWhile ==
    /\ spc = "while"
    /\ IF idx < total_pages
       THEN /\ writer' = NoWriter
            /\ offset' = 0
            /\ spc' = "for"
       ELSE /\ spc' = "returned"
            /\ UNCHANGED <<writer, offset>>
    /\ UNCHANGED <<src_pdf, n, out_dir, reader, idx, part_no, parts, NotSplit>>

\* reader.pages[idx + offset], the pages being numbered from 0 in the source
\* and from 1 here
PageIndexAtStart(i, off) == i + 1
PageIndex(i, off) == i + off + 1

\* what follows the loop over range(n): _strip_tags_from_writer(writer)
AfterPagesWrite == "write"
AfterPages == "strip"

\* for offset in range(n): if idx + offset < total_pages: writer.add_page(...)
SplitAddPage ==
    /\ spc = "for"
    /\ IF offset < n
       THEN /\ writer' = IF idx + offset < total_pages
                         THEN [writer EXCEPT !.pages = Append(@, reader[PageIndex(idx, offset)])]
                         ELSE writer
            /\ offset' = offset + 1
            /\ spc' = "for"
       ELSE /\ spc' = AfterPages
            /\ UNCHANGED <<writer, offset>>
    /\ UNCHANGED <<src_pdf, n, out_dir, reader, idx, part_no, parts, NotSplit>>

\* _strip_tags_from_writer(writer), between the last add_page and the write
SplitStrip ==
    /\ spc = "strip"
    /\ writer' = [_strip_tags_from_writer(writer) EXCEPT !.stripped = TRUE]
    /\ spc' = "write"
    /\ UNCHANGED <<src_pdf, n, out_dir, reader, idx, part_no, offset, parts, NotSplit>>

\* idx += n
NextIdxByOne(i, k) == i + 1
NextIdx(i, k) == i + k

\* with out_path.open("wb") as f: writer.write(f); parts.append(out_path);
\* part_no += 1; idx += n. The write may fail after the file was created.
SplitWrite ==
    /\ spc = "write"
    /\ \E ok \in BOOLEAN :
         IF ok
         THEN /\ out_dir' = [out_dir EXCEPT !.files =
                   Append(@, [name |-> part_no, catalog |-> writer.catalog,
                              pages |-> writer.pages,
                              stripped |-> writer.stripped, complete |-> TRUE])]
              /\ parts' = Append(parts, part_no)
              /\ part_no' = part_no + 1
              /\ idx' = NextIdx(idx, n)
              /\ spc' = "while"
         ELSE /\ out_dir' = [out_dir EXCEPT !.files =
                   Append(@, [name |-> part_no, catalog |-> {},
                              pages |-> <<>>,
                              stripped |-> writer.stripped, complete |-> FALSE])]
              /\ spc' = "OSError"
              /\ UNCHANGED <<parts, part_no, idx>>
    /\ UNCHANGED <<src_pdf, n, reader, offset, writer, NotSplit>>

SourcePages(P, tagged) ==
    [i \in 1..P |-> [src |-> i, struct_parents |-> tagged, tabs |-> tagged,
                     annots |-> IF tagged THEN "tagged" ELSE "none",
                     content |-> "text"]]

InitSplit ==
    /\ \E P \in 0..MaxPages, tagged \in BOOLEAN : src_pdf = SourcePages(P, tagged)
    /\ n \in (-1)..MaxGroup
    /\ spc = "call"
    /\ out_dir = [exists |-> FALSE, files |-> <<>>]
    /\ reader = <<>> /\ idx = 0 /\ part_no = 0 /\ offset = 0
    /\ writer = NoWriter /\ parts = <<>>
    /\ heap = <<>>
    /\ IdleResolve /\ IdleInherit /\ IdleImages /\ IdleBlank /\ IdleStrip /\ IdleClean /\ IdleBatch /\ IdleArchive /\ IdleEnsure /\ IdleWorkflow

NextSplit ==
    \/ SplitCheckN
    \/ SplitOpen
    \/ SplitWhile
    \/ SplitAddPage
    \/ SplitStrip
    \/ SplitWrite

SpecSplit == InitSplit /\ [][NextSplit]_vars /\ WF_vars(NextSplit)

SplitReturned == spc = "returned"

\* The file a returned path names.
PartFile(path) ==
    CHOOSE f \in {out_dir.files[i] : i \in 1..Len(out_dir.files)} : f.name = path

PageCount(path) == Len(PartFile(path).pages)

\* ceil(P / k) for k > 0: the least number of groups of k that cover P pages
Ceil(P, k) == CHOOSE c \in 0..P : c * k >= P /\ (c = 0 \/ (c - 1) * k < P)

RECURSIVE SumCounts(_, _)
SumCounts(ps, i) ==
    IF i > Len(ps) THEN 0 ELSE PageCount(ps[i]) + SumCounts(ps, i + 1)

\* C10: for every source of P pages and every group size n > 0, the call
\* returns exactly ceil(P/n) parts, every part holds at most n pages, every
\* part but the last holds exactly n, and the page counts sum to P.
C10_PartCounts ==
    SplitReturned =>
        /\ n > 0
        /\ Len(parts) = Ceil(Len(src_pdf), n)
        /\ \A i \in 1..Len(parts) : PageCount(parts[i]) <= n
        /\ \A i \in 1..(Len(parts) - 1) : PageCount(parts[i]) = n
        /\ SumCounts(parts, 1) = Len(src_pdf)

\* C10 witness: a 5-page source split by 2 has returned parts of 2, 2 and 1
\* pages.
C10_Witness ==
    /\ SplitReturned
    /\ Len(src_pdf) = 5 /\ n = 2
    /\ Len(parts) = 3
    /\ <<PageCount(parts[1]), PageCount(parts[2]), PageCount(parts[3])>> = <<2, 2, 1>>

\* The source positions of the pages a returned path's file holds.
PartSources(path) ==
    [j \in 1..PageCount(path) |-> PartFile(path).pages[j].src]

RECURSIVE ConcatParts(_, _)
ConcatParts(ps, i) ==
    IF i > Len(ps) THEN <<>> ELSE PartSources(ps[i]) \o ConcatParts(ps, i + 1)

\* C11: for every source and n > 0, the pages of the returned parts, taken in
\* the order of the returned list, are the source pages 1..P in order: each
\* part holds consecutive source pages and no page is omitted, duplicated or
\* reordered.
C11_ConcatReproducesSource ==
    SplitReturned =>
        /\ ConcatParts(parts, 1) = [i \in 1..Len(src_pdf) |-> i]
        /\ \A i \in 1..Len(parts) :
             \A j \in 1..(PageCount(parts[i]) - 1) :
                PartSources(parts[i])[j + 1] = PartSources(parts[i])[j] + 1

\* C11 witness: a 5-page source split by 3 has returned two parts holding
\* pages 1,2,3 and 4,5.
C11_Witness ==
    /\ SplitReturned
    /\ Len(src_pdf) = 5 /\ n = 3
    /\ Len(parts) = 2
    /\ PartSources(parts[1]) = <<1, 2, 3>>
    /\ PartSources(parts[2]) = <<4, 5>>

\* C12: a call with n <= 0 is rejected with ValueError before any effect: from
\* its first step on the call stands at ValueError, the output directory has
\* not been created, the source has not been opened and no part file has been
\* written or returned.
C12_NonPositiveRejected ==
    n <= 0 /\ spc # "call" =>
        /\ spc = "ValueError"
        /\ ~out_dir.exists
        /\ out_dir.files = <<>>
        /\ reader = <<>>
        /\ parts = <<>>

\* C12 witness: a call with n = 0 on a source that has pages stands at
\* ValueError.
C12_Witness == spc = "ValueError" /\ n = 0 /\ Len(src_pdf) > 0

-----------------------------------------------------------------------------
(* Claims about the tag stripper *)

\* C14: after one run of the tag stripper (strip_tags, and likewise
\* _strip_tags_from_writer) the catalog holds no Structure-Tree, Role-Map,
\* Class-Map or Mark-Information entry, no page holds a Structural-Parent or
\* a Tab-order key, and no annotation holds a Structural-Parent key.
C14_StripRemovesAllTags ==
    Stripped =>
        /\ pdf.catalog \cap {"/StructTreeRoot", "/RoleMap", "/ClassMap", "/MarkInfo"} = {}
        /\ \A i \in 1..Len(pdf.pages) :
             /\ ~pdf.pages[i].struct_parents
             /\ ~pdf.pages[i].tabs
             /\ pdf.pages[i].annots # "tagged"

\* The objects of a graph the catalog reaches.
RECURSIVE ReachFrom(_, _)
ReachFrom(g, S) ==
    LET T == S \cup UNION {{g[o].kids[k] : k \in 1..Len(g[o].kids)} : o \in S}
    IN IF T = S THEN S ELSE ReachFrom(g, T)
Reachable(g) == IF g = <<>> THEN {} ELSE ReachFrom(g, {1})

\* C15: for every object graph reachable from the catalog, cyclic ones
\* included, scrub_markinfo_anywhere returns, having entered each indirect
\* object at most once, and then no dictionary or stream the catalog reaches
\* holds a Mark-Information key.
C15_ScrubLeavesNoMarkInfo ==
    /\ tool = "strip_tags" /\ runs = 0 =>
          \A o \in 1..Len(pdf.graph) :
             pdf.graph[o].indirect => WalkRoot(pdf).entered[o] <= 1
    /\ tool = "strip_tags" /\ Stripped =>
          /\ \A o \in Reachable(pdf.graph) : ~pdf.graph[o].markinfo
          /\ "/MarkInfo" \notin pdf.catalog

\* C16: tag stripping is idempotent: a second run of the stripper (catalog
\* and page pass, then the full-graph scrub; likewise the writer's stripper)
\* leaves the document exactly as the first run left it.
C16_StripIdempotent == runs = 2 => pdf = once

\* C16 witness: strip_tags has run twice on a document whose first page had
\* tagged annotations, which the first run stripped, and a Tab-order key.
C16_Witness ==
    /\ runs = 2
    /\ tool = "strip_tags"
    /\ Len(pdf.pages) = 2
    /\ pdf.pages[1].annots = "plain"
    /\ pdf.pages[1].tabs
    /\ ~pdf.pages[1].struct_parents

\* The pages part number k is due: those from idx on, n at most.
PagesDue == IF total_pages - idx < n THEN total_pages - idx ELSE n

Untagged(d) ==
    /\ d.catalog \cap CatalogKeys = {}
    /\ \A i \in 1..Len(d.pages) : ~d.pages[i].struct_parents /\ ~d.pages[i].tabs

\* C17: in split_every_n_pages the writer of a part is not stripped while
\* pages are still being added, it is stripped, holding all of the part's
\* pages, when the part is about to be written, and every file of the output
\* directory was written from a stripped writer: it holds no catalog-level
\* tagging key and no page-level tagging key.
C17_StrippedBeforeWritten ==
    /\ spc = "for" => ~writer.stripped
    /\ spc = "write" =>
          /\ writer.stripped
          /\ Len(writer.pages) = PagesDue
          /\ Untagged(writer)
    /\ \A i \in 1..Len(out_dir.files) :
          out_dir.files[i].stripped /\ Untagged(out_dir.files[i])

\* C17 witness: a tagged source of 3 pages was split by 2, both parts are
\* written and the call has returned.
C17_Witness ==
    /\ SplitReturned
    /\ Len(src_pdf) = 3 /\ n = 2
    /\ src_pdf[1].struct_parents /\ src_pdf[1].tabs
    /\ Len(out_dir.files) = 2
    /\ out_dir.files[2].complete
    /\ Len(out_dir.files[2].pages) = 1

-----------------------------------------------------------------------------
(* remove_blank_pages *)

\* What a page of a file looks like to the classifier, by its content: a
\* page of text, a page with nothing on it, a page holding only an image, a
\* page holding only drawing operators. Pages are classified over the heap
\* PageHeap("page", "image"), whose object 1 is a page with an image in its
\* resources and whose object 2 has no resources.
PageContents == {"text", "empty", "image", "drawing"}

ReaderPage(pg) ==
    CASE pg.content = "text" ->
           [node |-> 2, text |-> <<"A", "A">>, fails |-> "none",
            contents |-> [kind |-> "single", streams |-> <<2>>]]
      [] pg.content = "image" ->
           [node |-> 1, text |-> <<>>, fails |-> "none",
            contents |-> [kind |-> "single", streams |-> <<1>>]]
      [] pg.content = "drawing" ->
           [node |-> 2, text |-> <<>>, fails |-> "none",
            contents |-> [kind |-> "list", streams |-> <<1, 1>>]]
      [] OTHER ->
           [node |-> 2, text |-> <<>>, fails |-> "none",
            contents |-> [kind |-> "none", streams |-> <<>>]]

\* writer.write(f) of a pypdf writer: the file it leaves when it succeeds
Written(w) ==
    [state |-> "complete", catalog |-> w.catalog, pages |-> w.pages,
     header |-> "1.3", id |-> 0]

\* the file an interrupted open("wb") / write / copy leaves
Partial == [NoFile EXCEPT !.state = "partial"]

\* reader = PdfReader(str(src_pdf)); writer = PdfWriter(); removed = 0; kept = 0
CleanOpen ==
    /\ cpc = "call"
    /\ clean_reader' = clean_src.pages
    /\ clean_writer' = NoWriter
    /\ removed' = 0
    /\ kept' = 0
    /\ pno' = 1
    /\ cpc' = "for"
    /\ UNCHANGED <<heap, blankVars, clean_src, dst_pdf, fallback_on_all_blank, NotClean>>

\* if is_blank_page(p, ...): removed += 1; continue
DropsUntilKept(v) == v.blank /\ kept = 0
DropsNothing(v) == FALSE
Drops(v) == v.blank

\* if kept == 0: if fallback_on_all_blank: ... else: ...
AllBlankBranchCopy(fb) == "copy"
AllBlankBranch(fb) == IF fb THEN "copy" ELSE "empty"

\* for p in reader.pages: ...; if kept == 0: ...
CleanPage ==
    /\ cpc = "for"
    /\ IF pno <= Len(clean_reader)
       THEN /\ IF Drops(is_blank_page(ReaderPage(clean_reader[pno]), thresholds))
               THEN /\ removed' = removed + 1
                    /\ UNCHANGED <<clean_writer, kept>>
               ELSE /\ clean_writer' =
                         [clean_writer EXCEPT !.pages = Append(@, clean_reader[pno])]
                    /\ kept' = kept + 1
                    /\ UNCHANGED removed
            /\ pno' = pno + 1
            /\ cpc' = "for"
       ELSE /\ cpc' = IF kept = 0 THEN AllBlankBranch(fallback_on_all_blank)
                      ELSE "strip"
            /\ UNCHANGED <<clean_writer, kept, removed, pno>>
    /\ UNCHANGED <<heap, blankVars, clean_src, dst_pdf, fallback_on_all_blank,
                   clean_reader, NotClean>>

\* shutil.copy2(src, dst): the file it leaves at dst when it succeeds
Copy2Truncated(f) == [f EXCEPT !.pages = <<>>]
Copy2(f) == f

\* dst_pdf.parent.mkdir(...); shutil.copy2(src_pdf, dst_pdf); return removed
CleanCopy ==
    /\ cpc = "copy"
    /\ \E ok \in BOOLEAN :
         IF ok THEN dst_pdf' = Copy2(clean_src) /\ cpc' = "returned"
         ELSE dst_pdf' = Partial /\ cpc' = "OSError"
    /\ UNCHANGED <<heap, blankVars, clean_src, fallback_on_all_blank, clean_reader,
                   clean_writer, pno, removed, kept, NotClean>>

\* empty_writer = PdfWriter(); with dst_pdf.open("wb") as f: empty_writer.write(f)
CleanWriteEmpty ==
    /\ cpc = "empty"
    /\ \E ok \in BOOLEAN :
         IF ok THEN dst_pdf' = Written(NoWriter) /\ cpc' = "returned"
         ELSE dst_pdf' = Partial /\ cpc' = "OSError"
    /\ UNCHANGED <<heap, blankVars, clean_src, fallback_on_all_blank, clean_reader,
                   clean_writer, pno, removed, kept, NotClean>>

\* _strip_tags_from_writer(writer)
CleanStrip ==
    /\ cpc = "strip"
    /\ clean_writer' = [_strip_tags_from_writer(clean_writer) EXCEPT !.stripped = TRUE]
    /\ cpc' = "write"
    /\ UNCHANGED <<heap, blankVars, clean_src, dst_pdf, fallback_on_all_blank,
                   clean_reader, pno, removed, kept, NotClean>>

\* with dst_pdf.open("wb") as f: writer.write(f); return removed
CleanWrite ==
    /\ cpc = "write"
    /\ \E ok \in BOOLEAN :
         IF ok THEN dst_pdf' = Written(clean_writer) /\ cpc' = "returned"
         ELSE dst_pdf' = Partial /\ cpc' = "OSError"
    /\ UNCHANGED <<heap, blankVars, clean_src, fallback_on_all_blank, clean_reader,
                   clean_writer, pno, removed, kept, NotClean>>

\* A part as the splitter and the converter leave it, or as any producer does.
PartPages(cs, tagged) ==
    [i \in 1..Len(cs) |->
        [src |-> i, struct_parents |-> tagged, tabs |-> tagged,
         annots |-> IF tagged THEN "tagged" ELSE "none", content |-> cs[i]]]

PartFile14(cs, tagged) ==
    [state |-> "complete",
     catalog |-> IF tagged THEN {"/StructTreeRoot", "/MarkInfo"} ELSE {},
     pages |-> PartPages(cs, tagged), header |-> "1.4", id |-> 1]

CleanThresholds ==
    [text_len_threshold : {1}, min_alnum_chars : {2},
     min_alnum_ratio : {[num |-> 1, den |-> 5]}, min_stream_bytes : {1},
     treat_any_image_as_nonblank : BOOLEAN]

InitClean ==
    /\ heap = PageHeap("page", "image")
    /\ thresholds \in CleanThresholds
    /\ page = 0 /\ bpc = "idle" /\ verdict = [blank |-> FALSE, reason |-> "idle"]
    /\ \E cs \in SeqsUpTo(PageContents, MaxCleanPages), tagged \in BOOLEAN :
          clean_src = PartFile14(cs, tagged)
    /\ dst_pdf \in {NoFile, PartFile14(<<"text">>, FALSE)}
    /\ fallback_on_all_blank \in BOOLEAN
    /\ cpc = "call"
    /\ clean_reader = <<>> /\ clean_writer = NoWriter
    /\ pno = 0 /\ removed = 0 /\ kept = 0
    /\ IdleResolve /\ IdleInherit /\ IdleImages /\ IdleSplit /\ IdleStrip /\ IdleBatch /\ IdleArchive /\ IdleEnsure /\ IdleWorkflow

NextClean ==
    \/ CleanOpen
    \/ CleanPage
    \/ CleanCopy
    \/ CleanWriteEmpty
    \/ CleanStrip
    \/ CleanWrite

SpecClean == InitClean /\ [][NextClean]_vars /\ WF_vars(NextClean)

CleanReturned == cpc = "returned"

\* Whether the classifier calls a page of the source Blank.
ClassifiesBlank(pg) == is_blank_page(ReaderPage(pg), thresholds).blank

AllBlank == \A i \in 1..Len(clean_src.pages) : ClassifiesBlank(clean_src.pages[i])

\* C19: when every page of the part classifies Blank and the fallback is
\* off, remove_blank_pages leaves a complete document of zero pages at the
\* destination: not a copy of the input, and not no file.
C19_AllBlankNoFallbackEmpty ==
    CleanReturned /\ AllBlank /\ ~fallback_on_all_blank =>
        /\ dst_pdf.state = "complete"
        /\ dst_pdf.pages = <<>>
        /\ (clean_src.pages # <<>> => dst_pdf # clean_src)

\* C19 witness: a two-page part, both pages Blank (an empty page and, images
\* not counting, an image-only page), fallback off, and the call has returned.
C19_Witness ==
    /\ CleanReturned
    /\ ~fallback_on_all_blank
    /\ Len(clean_src.pages) = 2
    /\ clean_src.pages[1].content = "empty"
    /\ clean_src.pages[2].content = "image"
    /\ AllBlank
    /\ removed = 2

\* The source positions of the pages classified NonBlank, in source order.
RECURSIVE NonBlankFrom(_, _)
NonBlankFrom(pages, i) ==
    IF i > Len(pages) THEN <<>>
    ELSE (IF ClassifiesBlank(pages[i]) THEN <<>> ELSE <<i>>) \o NonBlankFrom(pages, i + 1)

\* The destination consists of exactly the given source pages, in that order.
DstHolds(positions) ==
    /\ dst_pdf.state = "complete"
    /\ Len(dst_pdf.pages) = Len(positions)
    /\ \A k \in 1..Len(positions) :
          /\ dst_pdf.pages[k].src = positions[k]
          /\ dst_pdf.pages[k].content = clean_src.pages[positions[k]].content

\* C20: the document remove_blank_pages writes has as many pages as were
\* kept: it consists of exactly the source pages classified NonBlank, in
\* source order, every page classified Blank being dropped.
C20_DstIsKeptPages ==
    CleanReturned =>
        /\ Len(dst_pdf.pages) = kept
        /\ DstHolds(NonBlankFrom(clean_src.pages, 1))

\* C20, amended: the same, unless every page classifies Blank and the
\* fallback is on; then the destination is a copy of the whole source, Blank
\* pages included, while kept is 0.
C20_DstIsKeptPagesUnlessFallback ==
    CleanReturned =>
        IF AllBlank /\ fallback_on_all_blank
        THEN kept = 0 /\ dst_pdf = clean_src
        ELSE /\ Len(dst_pdf.pages) = kept
             /\ DstHolds(NonBlankFrom(clean_src.pages, 1))

\* C20 witness: a three-page part whose middle page alone is Blank has been
\* written as its first and third page.
C20_Witness ==
    /\ CleanReturned
    /\ Len(clean_src.pages) = 3
    /\ NonBlankFrom(clean_src.pages, 1) = <<1, 3>>
    /\ kept = 2 /\ removed = 1
    /\ Len(dst_pdf.pages) = 2
    /\ dst_pdf.pages[2].src = 3

-----------------------------------------------------------------------------
(* process: the batch driver *)

\* split_every_n_pages as one call: how many parts it writes and the file
\* it writes as part k, from a writer created by _create_pdf_writer.
NumParts(f, size) == (Len(f.pages) + size - 1) \div size

SplitPartFile(f, size, k) ==
    LET first == (k - 1) * size + 1
        last == IF k * size < Len(f.pages) THEN k * size ELSE Len(f.pages)
        w == _strip_tags_from_writer(
                 [NoWriter EXCEPT !.pages = SubSeq(f.pages, first, last)])
    IN [Written(w) EXCEPT !.header = "1.4"]

\* remove_blank_pages as one call that returns: the file it leaves at dst_pdf
RemoveBlankDst(f, th, fb) ==
    LET keep(pg) == ~Drops(is_blank_page(ReaderPage(pg), th))
        keptPages == SelectSeq(f.pages, keep)
    IN IF Len(keptPages) = 0
       THEN IF AllBlankBranch(fb) = "copy" THEN Copy2(f) ELSE Written(NoWriter)
       ELSE Written(_strip_tags_from_writer([NoWriter EXCEPT !.pages = keptPages]))

\* to_pdf14_untagged(path, temp); temp.replace(path): the file strip_tags and
\* pdf.save(force_version="1.4") leave, with the identifier the save gave it
Convert(f, stamp) ==
    LET d == strip_tags([catalog |-> f.catalog, pages |-> f.pages, graph |-> <<>>])
    IN [state |-> "complete", catalog |-> d.catalog, pages |-> d.pages,
        header |-> "1.4", id |-> stamp]

\* Names of the files of the output directories: <<source, part number>>,
\* part number 0 for the copy made when the source is not split.
PartNames == (1..MaxDocs) \X (0..2)

\* whether the next operation may fail
Outcomes == IF faults < MaxFaults THEN BOOLEAN ELSE {TRUE}

src_name == pdfs[doc_no]

Logged(where) == Append(log, <<src_name, where>>)

\* parts = split_every_n_pages(src, out_dir_split, n=n), or
\* out_dir_split.mkdir(...); shutil.copy2(src, target)
DriverSplit ==
    /\ dpc = "split"
    /\ LET f == in_dir[src_name] IN
       \E ok \in Outcomes :
         IF every > 0
         THEN IF ok
              THEN /\ out_dir_split' =
                        [nm \in PartNames |->
                           IF nm[1] = src_name /\ nm[2] \in 1..NumParts(f, every)
                           THEN SplitPartFile(f, every, nm[2])
                           ELSE out_dir_split[nm]]
                   /\ batch_parts' = [k \in 1..NumParts(f, every) |-> <<src_name, k>>]
                   /\ part_ix' = 1
                   /\ dpc' = "convert"
                   /\ UNCHANGED <<faults, log>>
              ELSE \E bad \in 1..NumParts(f, every) :
                   /\ out_dir_split' =
                        [nm \in PartNames |->
                           IF nm[1] = src_name /\ nm[2] \in 1..(bad - 1)
                           THEN SplitPartFile(f, every, nm[2])
                           ELSE IF nm = <<src_name, bad>> THEN Partial
                           ELSE out_dir_split[nm]]
                   /\ faults' = faults + 1
                   /\ log' = Logged("split")
                   /\ dpc' = "archive"
                   /\ UNCHANGED <<batch_parts, part_ix>>
         ELSE IF ok
              THEN /\ out_dir_split' =
                        [out_dir_split EXCEPT ![<<src_name, 0>>] = Copy2(f)]
                   /\ batch_parts' = << <<src_name, 0>> >>
                   /\ part_ix' = 1
                   /\ dpc' = "convert"
                   /\ UNCHANGED <<faults, log>>
              ELSE /\ out_dir_split' =
                        [out_dir_split EXCEPT ![<<src_name, 0>>] = Partial]
                   /\ faults' = faults + 1
                   /\ log' = Logged("copy")
                   /\ dpc' = "archive"
                   /\ UNCHANGED <<batch_parts, part_ix>>
    /\ UNCHANGED <<heap, blankVars, in_dir, out_dir_clean, archive, every, clean,
                   fallback, archiving, pdfs, doc_no, saves, NotBatch>>

\* for part in parts: ensure_pdf14(part), or ensure_pdf14(target)
DriverConvert ==
    /\ dpc = "convert"
    /\ IF part_ix <= Len(batch_parts)
       THEN \E ok \in Outcomes :
              IF ok
              THEN /\ out_dir_split' =
                        [out_dir_split EXCEPT ![batch_parts[part_ix]] =
                                                  Convert(@, saves + 1)]
                   /\ saves' = saves + 1
                   /\ part_ix' = part_ix + 1
                   /\ UNCHANGED <<dpc, faults, log>>
              ELSE /\ faults' = faults + 1
                   /\ log' = Logged("convert")
                   /\ dpc' = "archive"
                   /\ UNCHANGED <<out_dir_split, saves, part_ix>>
       ELSE /\ dpc' = IF clean THEN "clean" ELSE "archive"
            /\ part_ix' = 1
            /\ UNCHANGED <<out_dir_split, saves, faults, log>>
    /\ UNCHANGED <<heap, blankVars, in_dir, out_dir_clean, archive, every, clean,
                   fallback, archiving, pdfs, doc_no, batch_parts, NotBatch>>

\* for p in parts: dst = out_dir_clean / p.name; removed = remove_blank_pages(...)
DriverClean ==
    /\ dpc = "clean"
    /\ IF part_ix <= Len(batch_parts)
       THEN \E ok \in Outcomes :
              IF ok
              THEN /\ out_dir_clean' =
                        [out_dir_clean EXCEPT ![batch_parts[part_ix]] =
                            RemoveBlankDst(out_dir_split[batch_parts[part_ix]],
                                           thresholds, fallback)]
                   /\ dpc' = "cleanconvert"
                   /\ UNCHANGED <<faults, log>>
              ELSE /\ \E left \in {out_dir_clean[batch_parts[part_ix]], Partial} :
                        out_dir_clean' =
                            [out_dir_clean EXCEPT ![batch_parts[part_ix]] = left]
                   /\ faults' = faults + 1
                   /\ log' = Logged("clean")
                   /\ dpc' = "fallbackcopy"
       ELSE /\ dpc' = "archive"
            /\ UNCHANGED <<out_dir_clean, faults, log>>
    /\ UNCHANGED <<heap, blankVars, in_dir, out_dir_split, archive, every, clean,
                   fallback, archiving, pdfs, doc_no, batch_parts, part_ix, saves,
                   NotBatch>>

\* ensure_pdf14(dst) after remove_blank_pages
DriverCleanConvert ==
    /\ dpc = "cleanconvert"
    /\ \E ok \in Outcomes :
         IF ok
         THEN /\ out_dir_clean' =
                   [out_dir_clean EXCEPT ![batch_parts[part_ix]] = Convert(@, saves + 1)]
              /\ saves' = saves + 1
              /\ part_ix' = part_ix + 1
              /\ dpc' = "clean"
              /\ UNCHANGED <<faults, log>>
         ELSE /\ faults' = faults + 1
              /\ log' = Logged("clean")
              /\ dpc' = "fallbackcopy"
              /\ UNCHANGED <<out_dir_clean, saves, part_ix>>
    /\ UNCHANGED <<heap, blankVars, in_dir, out_dir_split, archive, every, clean,
                   fallback, archiving, pdfs, doc_no, batch_parts, NotBatch>>

\* except Exception: ...; try: shutil.copy2(p, dst); removed = 0
\* except Exception: continue
DriverFallbackCopy ==
    /\ dpc = "fallbackcopy"
    /\ \E ok \in Outcomes :
         IF ok
         THEN /\ out_dir_clean' =
                   [out_dir_clean EXCEPT ![batch_parts[part_ix]] =
                       Copy2(out_dir_split[batch_parts[part_ix]])]
              /\ dpc' = "fallbackconvert"
              /\ UNCHANGED <<faults, part_ix>>
         ELSE /\ out_dir_clean' =
                   [out_dir_clean EXCEPT ![batch_parts[part_ix]] = Partial]
              /\ faults' = faults + 1
              /\ part_ix' = part_ix + 1
              /\ dpc' = "clean"
    /\ UNCHANGED <<heap, blankVars, in_dir, out_dir_split, archive, every, clean,
                   fallback, archiving, pdfs, doc_no, batch_parts, saves, log, NotBatch>>

\* ensure_pdf14(dst) after the fallback copy; except Exception: continue
DriverFallbackConvert ==
    /\ dpc = "fallbackconvert"
    /\ \E ok \in Outcomes :
         IF ok
         THEN /\ out_dir_clean' =
                   [out_dir_clean EXCEPT ![batch_parts[part_ix]] = Convert(@, saves + 1)]
              /\ saves' = saves + 1
              /\ UNCHANGED faults
         ELSE /\ faults' = faults + 1
              /\ UNCHANGED <<out_dir_clean, saves>>
    /\ part_ix' = part_ix + 1
    /\ dpc' = "clean"
    /\ UNCHANGED <<heap, blankVars, in_dir, out_dir_split, archive, every, clean,
                   fallback, archiving, pdfs, doc_no, batch_parts, log, NotBatch>>

\* finally: if archive_dir is not None and src.exists(): move_to_archive(...)
\* An exception of the move leaves the finally block and the loop.
\* if archive_dir is not None and src.exists(): whether the source is moved,
\* `present` telling whether it is still in the input directory
ArchivesAfterSuccess(present) ==
    archiving /\ present /\ \A k \in 1..Len(log) : log[k][1] # src_name
Archives(present) == archiving /\ present

DriverArchive ==
    /\ dpc = "archive"
    /\ \E ok \in (IF Archives(in_dir[src_name].state # "absent")
                  THEN Outcomes ELSE {TRUE}) :
         IF ok
         THEN /\ IF Archives(in_dir[src_name].state # "absent")
                 THEN /\ archive' = [archive EXCEPT ![src_name] = in_dir[src_name]]
                      /\ in_dir' = [in_dir EXCEPT ![src_name] = NoFile]
                 ELSE UNCHANGED <<archive, in_dir>>
              /\ doc_no' = doc_no + 1
              /\ dpc' = IF doc_no + 1 > Len(pdfs) THEN "done" ELSE "split"
              /\ UNCHANGED faults
         ELSE /\ faults' = faults + 1
              /\ dpc' = "aborted"
              /\ UNCHANGED <<archive, in_dir, doc_no>>
    /\ UNCHANGED <<heap, blankVars, out_dir_split, out_dir_clean, every, clean,
                   fallback, archiving, pdfs, batch_parts, part_ix, saves, log,
                   NotBatch>>

\* Source documents as producers leave them: tagged or not, version 1.7.
SourceFiles ==
    {[PartFile14(cs, tagged) EXCEPT !.header = "1.7", !.id = 0] :
        cs \in {<<"empty">>, <<"text", "empty">>, <<"empty", "empty">>},
        tagged \in BOOLEAN}

PlainSource == [PartFile14(<<"text">>, FALSE) EXCEPT !.header = "1.7", !.id = 0]

InitBatch ==
    /\ heap = PageHeap("page", "image")
    /\ thresholds \in {th \in CleanThresholds : th.treat_any_image_as_nonblank}
    /\ page = 0 /\ bpc = "idle" /\ verdict = [blank |-> FALSE, reason |-> "idle"]
    /\ \E len \in 1..MaxDocs, f \in SourceFiles :
          /\ pdfs = [i \in 1..len |-> i]
          /\ in_dir = [i \in 1..len |-> IF i = 1 THEN f ELSE PlainSource]
          /\ archive = [i \in 1..len |-> NoFile]
    /\ out_dir_split = [nm \in PartNames |-> NoFile]
    /\ out_dir_clean = [nm \in PartNames |-> NoFile]
    /\ every \in 0..2
    /\ clean \in BOOLEAN
    /\ fallback \in BOOLEAN
    /\ archiving \in BOOLEAN
    /\ doc_no = 1
    /\ dpc = "split"
    /\ batch_parts = <<>> /\ part_ix = 0 /\ saves = 0 /\ faults = 0 /\ log = <<>>
    /\ IdleResolve /\ IdleInherit /\ IdleImages /\ IdleSplit /\ IdleStrip /\ IdleClean /\ IdleArchive /\ IdleEnsure /\ IdleWorkflow

NextBatch ==
    \/ DriverSplit
    \/ DriverConvert
    \/ DriverClean
    \/ DriverCleanConvert
    \/ DriverFallbackCopy
    \/ DriverFallbackConvert
    \/ DriverArchive

SpecBatch == InitBatch /\ [][NextBatch]_vars /\ WF_vars(NextBatch)

BatchDone == dpc = "done"

\* The driver's one-call forms of the splitter and of the blank-page remover
\* yield what the step-by-step calls leave.
SplitStepsAgree ==
    SplitReturned =>
        /\ Len(parts) = NumParts([pages |-> src_pdf], n)
        /\ \A k \in 1..Len(parts) :
              /\ PartFile(parts[k]).pages = SplitPartFile([pages |-> src_pdf], n, k).pages
              /\ PartFile(parts[k]).catalog = SplitPartFile([pages |-> src_pdf], n, k).catalog

CleanStepsAgree ==
    CleanReturned => dst_pdf = RemoveBlankDst(clean_src, thresholds, fallback_on_all_blank)

\* C13: every document the pipeline has written to the split or the clean
\* output directory when the batch is done, on every path of the driver,
\* references none of: catalog Structure-Tree, Mark-Information, Role-Map,
\* Class-Map, per-page Structural-Parent, per-page Tab-order.
C13_OutputsUntagged ==
    BatchDone =>
        \A nm \in PartNames :
            /\ out_dir_split[nm].state = "complete" => Untagged(out_dir_split[nm])
            /\ out_dir_clean[nm].state = "complete" => Untagged(out_dir_clean[nm])

\* Whether the classifier calls every page of a file Blank.
AllBlankFile(f) ==
    \A i \in 1..Len(f.pages) : is_blank_page(ReaderPage(f.pages[i]), thresholds).blank

\* The parts of the current source whose blank removal is over.
CleanedParts ==
    IF dpc \in {"clean", "cleanconvert", "fallbackcopy", "fallbackconvert"}
    THEN {batch_parts[j] : j \in 1..(part_ix - 1)}
    ELSE {}

\* remove_blank_pages has just returned for the part at part_ix.
JustCleaned == dpc = "cleanconvert"

\* C18: when every page of a part classifies Blank and the fallback is on,
\* the output for that part is an unmodified copy of the part's bytes, both
\* as remove_blank_pages leaves it and as the driver finally leaves it in the
\* clean output directory.
C18_FallbackOutputIsCopy ==
    fallback =>
        /\ JustCleaned /\ AllBlankFile(out_dir_split[batch_parts[part_ix]]) =>
              out_dir_clean[batch_parts[part_ix]] = out_dir_split[batch_parts[part_ix]]
        /\ \A nm \in CleanedParts :
              AllBlankFile(out_dir_split[nm]) => out_dir_clean[nm] = out_dir_split[nm]

\* C18, amended: as remove_blank_pages leaves it the output is an unmodified
\* copy of the part; the driver then converts that copy, so what it finally
\* leaves is the part re-serialised: equal to the part in catalog, pages and
\* version, with a file identifier of its own. It is the unmodified copy only
\* when the conversion failed, and a partial file when the driver's own
\* fallback copy failed.
C18_FallbackOutputIsCopyThenConverted ==
    fallback =>
        /\ JustCleaned /\ AllBlankFile(out_dir_split[batch_parts[part_ix]]) =>
              out_dir_clean[batch_parts[part_ix]] = out_dir_split[batch_parts[part_ix]]
        /\ \A nm \in CleanedParts :
              AllBlankFile(out_dir_split[nm]) =>
                 \/ /\ [out_dir_clean[nm] EXCEPT !.id = 0]
                         = [out_dir_split[nm] EXCEPT !.id = 0]
                    /\ out_dir_clean[nm].id # out_dir_split[nm].id
                 \/ /\ out_dir_clean[nm] = out_dir_split[nm]
                    /\ faults > 0
                 \/ /\ out_dir_clean[nm].state = "partial"
                    /\ faults > 0

\* C18 witness: with the fallback on and nothing failing, a part of two Blank
\* pages has been cleaned and converted: the clean directory holds the part's
\* pages under another file identifier.
C18_Witness ==
    /\ fallback /\ faults = 0
    /\ dpc = "clean"
    /\ <<1, 1>> \in CleanedParts
    /\ Len(out_dir_split[<<1, 1>>].pages) = 2
    /\ AllBlankFile(out_dir_split[<<1, 1>>])
    /\ out_dir_clean[<<1, 1>>].pages = out_dir_split[<<1, 1>>].pages
    /\ out_dir_clean[<<1, 1>>].id # out_dir_split[<<1, 1>>].id

-----------------------------------------------------------------------------
\* Failed writes (split_pages.py 72-76, blank_page.py 126-147)

\* C21: a write of an output document that fails leaves no half-written file
\* at the destination: every file of the split directory is complete and the
\* destination of remove_blank_pages is never a partial file. Both functions
\* open the destination itself for writing, so the statement is violated.
C21_NoPartialOutput ==
    /\ \A i \in 1..Len(out_dir.files) : out_dir.files[i].complete
    /\ dst_pdf.state # "partial"

-----------------------------------------------------------------------------
\* The batch loop (pdf_batch_tools_new.py 121-203)

\* C22: an exception raised while one document is handled, in splitting,
\* conversion, blank-page removal or the archive move after the attempt, never
\* aborts the batch: the driver is never left by an exception, and when it
\* returns every PDF of the sorted list has been attempted. The archive move
\* runs in the finally block, outside every handler, so the statement is
\* violated when the move raises.
C22_FailureNeverAbortsBatch ==
    /\ dpc # "aborted"
    /\ dpc = "done" => doc_no = Len(pdfs) + 1

-----------------------------------------------------------------------------
\* Repeated classification (blank_page.py 27-89, 111-124)

CountContent(pages, c) ==
    Cardinality({i \in 1..Len(pages) : pages[i].content = c})

Classified_so_far == SubSeq(clean_reader, 1, pno - 1)

-----------------------------------------------------------------------------
\* move_to_archive (src/tools/move_to_archive.py 14-38)
\*
\* The archive directory is seen over several calls. A source is known by its
\* stem; the file names of the archive are <<stem, 0>> for src.name itself and
\* <<stem, k>> for the name with the suffix _k before the extension, k being
\* the timestamp (tools/move_to_archive.py, normalize.py archive_original) or
\* the three-digit counter (pdf_batch_tools.py). A stored file is known by the
\* number of the call that moved it, 0 standing for no file.

MaxStems == 2
MaxMoves == 4
MaxClock == 2

MaxSuffix == IF MaxClock > MaxMoves THEN MaxClock ELSE MaxMoves
ArchiveNames == (1..MaxStems) \X (0..MaxSuffix)

\* datetime.now().strftime("%Y%m%d_%H%M%S"): the clock read to the second
Timestamp == now

\* i = 1; while (archive_dir / f"{base}_{i:03d}{ext}").exists(): i += 1
RECURSIVE FirstFree(_, _)
FirstFree(stem, i) ==
    IF archive_dir[<<stem, i>>] = 0 THEN i ELSE FirstFree(stem, i + 1)

\* target = archive_dir / src.name; if target.exists(): target = ...
Target(stem) ==
    IF archive_dir[<<stem, 0>>] = 0 THEN <<stem, 0>>
    ELSE IF collision = "timestamp" THEN <<stem, Timestamp>>
    ELSE <<stem, FirstFree(stem, 1)>>

\* One call for a source of some stem that exists in the input directory.
\* src.replace(target) replaces whatever is at target; when it raises OSError
\* shutil.copy2(src, target) writes over target and the source is unlinked:
\* either way the source's content is at target afterwards.
MoveToArchive ==
    /\ moved < MaxMoves
    /\ \E stem \in 1..MaxStems :
         /\ archive_dir' = [archive_dir EXCEPT ![Target(stem)] = moved + 1]
         /\ returned_path' = Target(stem)
    /\ moved' = moved + 1
    /\ UNCHANGED <<collision, now, NotArchive>>

\* a second passes
Tick ==
    /\ now < MaxClock
    /\ now' = now + 1
    /\ UNCHANGED <<archive_dir, collision, moved, returned_path, NotArchive>>

InitArchive ==
    /\ archive_dir = [nm \in ArchiveNames |-> 0]
    /\ collision \in {"timestamp", "counter"}
    /\ now = 1
    /\ moved = 0
    /\ returned_path = <<0, 0>>
    /\ heap = <<>>
    /\ IdleResolve /\ IdleInherit /\ IdleImages /\ IdleBlank /\ IdleSplit /\ IdleStrip /\ IdleClean /\ IdleBatch /\ IdleEnsure /\ IdleWorkflow

NextArchive == MoveToArchive \/ Tick

SpecArchive == InitArchive /\ [][NextArchive]_vars

\* C24: move_to_archive never overwrites a file of the archive, also when
\* several same-named sources are moved with coinciding timestamps, and the
\* moved source is stored under the returned path: no step changes a name of
\* the archive that holds a file, and after a call the returned path holds the
\* source just moved. The timestamped name is taken without looking whether it
\* exists, so the statement is violated.
C24_NeverOverwrites ==
    [][/\ \A nm \in ArchiveNames :
             archive_dir[nm] # 0 => archive_dir'[nm] = archive_dir[nm]
       /\ moved' = moved + 1 => archive_dir'[returned_path'] = moved']_vars

-----------------------------------------------------------------------------
\* The returned count (blank_page.py 110-147)

\* C25: the count remove_blank_pages returns is the number of pages of the
\* source minus the number of pages of the destination, in every case, the
\* all-blank one included. With the all-blank fallback the source is copied
\* whole and the count of Blank pages is returned all the same, so the
\* statement is violated.
C25_ReturnedCountIsDifference ==
    CleanReturned => removed = Len(clean_src.pages) - Len(dst_pdf.pages)

-----------------------------------------------------------------------------
\* ensure_pdf14 (src/workflows/pdf_batch_tools_new.py 56-72)

\* how to_pdf14_untagged(str(path), str(temp_path)) can end: it saves the
\* converted document, or pikepdf.Pdf.open or strip_tags raises before
\* anything is written, or pdf.save raises with temp_path partly written
ConvertOutcomes == {"saved", "open_raises", "save_raises"}

\* if temp_path.exists(): temp_path.unlink(missing_ok=True)
CleanupKeeps(t) == t
Cleanup(t) == NoFile

\* try: to_pdf14_untagged(str(path), str(temp_path))
EnsureConvert ==
    /\ epc = "call"
    /\ \E how \in ConvertOutcomes :
         CASE how = "saved" ->
                /\ temp_file' = Convert(path_file, 1)
                /\ epc' = "replace"
                /\ UNCHANGED failed_at
           [] how = "open_raises" ->
                /\ epc' = "except"
                /\ failed_at' = "open"
                /\ UNCHANGED temp_file
           [] how = "save_raises" ->
                /\ temp_file' = Partial
                /\ epc' = "except"
                /\ failed_at' = "save"
    /\ UNCHANGED <<path_file, before, logged, NotEnsure>>

\* temp_path.replace(path): the rename puts the whole temporary file at path
\* or raises and changes nothing
EnsureReplace ==
    /\ epc = "replace"
    /\ \E ok \in BOOLEAN :
         IF ok
         THEN /\ path_file' = temp_file
              /\ temp_file' = NoFile
              /\ epc' = "returned"
              /\ UNCHANGED failed_at
         ELSE /\ epc' = "except"
              /\ failed_at' = "replace"
              /\ UNCHANGED <<path_file, temp_file>>
    /\ UNCHANGED <<before, logged, NotEnsure>>

\* except Exception: logger.exception(...); unlink the temporary file; raise
EnsureExcept ==
    /\ epc = "except"
    /\ logged' = TRUE
    /\ temp_file' = IF temp_file.state # "absent" THEN Cleanup(temp_file) ELSE temp_file
    /\ epc' = "raised"
    /\ UNCHANGED <<path_file, before, failed_at, NotEnsure>>

\* the files ensure_pdf14 is called on: parts and copies of any header
EnsureFiles ==
    {[PartFile14(cs, tagged) EXCEPT !.header = h, !.id = 0] :
        cs \in SeqsUpTo(PageContents, MaxStripPages), tagged \in BOOLEAN,
        h \in {"1.3", "1.4", "1.7"}}

InitEnsure ==
    /\ path_file \in EnsureFiles
    /\ before = path_file
    /\ temp_file = NoFile
    /\ epc = "call"
    /\ failed_at = "none"
    /\ logged = FALSE
    /\ heap = <<>>
    /\ IdleResolve /\ IdleInherit /\ IdleImages /\ IdleBlank /\ IdleSplit /\ IdleStrip /\ IdleClean /\ IdleBatch /\ IdleArchive /\ IdleWorkflow

NextEnsure == EnsureConvert \/ EnsureReplace \/ EnsureExcept

SpecEnsure == InitEnsure /\ [][NextEnsure]_vars /\ WF_vars(NextEnsure)

\* C26: ensure_pdf14 replaces the file atomically. At every moment the file at
\* path is whole: it is the file the call found or its complete conversion,
\* and it is the conversion only after the rename. When the conversion or the
\* rename has failed and the error has been re-raised, the file at path is the
\* one the call found, the temporary file is gone and the error was logged.
C26_ReplacedAtomically ==
    /\ path_file \in {before, Convert(before, 1)}
    /\ path_file # before => epc = "returned"
    /\ epc = "returned" =>
          /\ path_file = Convert(before, 1) /\ temp_file = NoFile
          /\ failed_at = "none"
    /\ epc = "raised" =>
          /\ path_file = before /\ temp_file = NoFile
          /\ failed_at # "none" /\ logged

\* C26 witness: the rename of a complete temporary file failed on a tagged
\* PDF 1.7 file; the error was raised with the file untouched and the
\* temporary file removed.
C26_Witness ==
    /\ epc = "raised" /\ failed_at = "replace"
    /\ before.header = "1.7" /\ "/MarkInfo" \in before.catalog
    /\ path_file = before /\ temp_file = NoFile

-----------------------------------------------------------------------------
\* Termination of page_has_images (utils.py 132-163)

\* a Form of the graph leads back to a resource table above it
CyclicForms ==
    \E o \in 1..Len(heap) :
       /\ heap[o].subtype = "/Form"
       /\ heap[o].resources # None
       /\ _resolve(heap[o].resources) \in {1, 2}
       /\ \E t \in {1, 2} :
             /\ _resolve(heap[o].resources) <= t
             /\ \E i \in 1..Len(heap[_resolve(heap[t].xobject)].items) :
                   _resolve(heap[_resolve(heap[t].xobject)].items[i]) = o

-----------------------------------------------------------------------------
\* The text-length threshold (blank_page.py 68-70)

-----------------------------------------------------------------------------
\* Archiving in the batch loop (pdf_batch_tools_new.py 140-203)

\* a source as it was put into the input directory
IsSource(f) == f.state = "complete" /\ f.header = "1.7"

\* each source is in the input directory until its attempt has finished and in
\* the archive from then on, whether the attempt logged a failure or not
ArchivedInTurn ==
    \A d \in 1..Len(pdfs) :
       IF d < doc_no
       THEN in_dir[d] = NoFile /\ IsSource(archive[d])
       ELSE archive[d] = NoFile /\ IsSource(in_dir[d])

-----------------------------------------------------------------------------
\* execute_workflow (src/workflows/run_workflow.py 120-225)
\*
\* A step is the record of what the loop reads of it: its name, the set of
\* names in depends_on, on_error and the condition string. Whether the script
\* of a step raises is not known to the model: both outcomes are taken.

MaxSteps == 2

StepNames == {"a", "b"}
OnErrors == {"stop", "continue"}
\* "none" stands for a step without condition
Conditions == {"none", "yes", "${UNSET}"}

\* evaluate_condition(condition, all_vars) on a condition that is given
evaluate_condition(condition) ==
    IF condition \in {"true", "1", "yes"} THEN TRUE
    ELSE IF condition \in {"false", "0", "no", ""} THEN FALSE
    ELSE IF condition = "${UNSET}" THEN FALSE
    ELSE TRUE

\* missing_deps = set(depends_on) - completed_steps
MissingDepsNone(depends_on, completed) == {}
MissingDeps(depends_on, completed) == depends_on \ completed

\* what becomes of completed_steps when the script of a step raised
CompletedOnFailure(completed, name) == completed

\* one turn of `for step_idx, step in enumerate(workflow.get("steps", []), 1)`
WorkflowStep ==
    /\ wpc = "for"
    /\ step_idx <= Len(steps)
    /\ LET step == steps[step_idx] IN
       IF step.depends_on # {} /\ MissingDeps(step.depends_on, completed_steps) # {}
       THEN \* [SKIP] missing dependencies: continue
            /\ step_idx' = step_idx + 1
            /\ UNCHANGED <<completed_steps, wpc, result, executed_steps, succeeded_steps>>
       ELSE IF step.condition # "none" /\ ~evaluate_condition(step.condition)
       THEN \* [SKIP] condition not met: continue
            /\ step_idx' = step_idx + 1
            /\ UNCHANGED <<completed_steps, wpc, result, executed_steps, succeeded_steps>>
       ELSE IF dry_run
       THEN \* the script is printed, not executed
            /\ completed_steps' = completed_steps \cup {step.name}
            /\ step_idx' = step_idx + 1
            /\ UNCHANGED <<wpc, result, executed_steps, succeeded_steps>>
       ELSE \E ok \in BOOLEAN :
            /\ executed_steps' = executed_steps \cup {step_idx}
            /\ IF ok
               THEN /\ completed_steps' = completed_steps \cup {step.name}
                    /\ succeeded_steps' = succeeded_steps \cup {step_idx}
                    /\ step_idx' = step_idx + 1
                    /\ UNCHANGED <<wpc, result>>
               ELSE /\ completed_steps' = CompletedOnFailure(completed_steps, step.name)
                    /\ UNCHANGED succeeded_steps
                    /\ IF step.on_error = "stop"
                       THEN /\ wpc' = "returned"
                            /\ result' = "False"
                            /\ UNCHANGED step_idx
                       ELSE /\ step_idx' = step_idx + 1
                            /\ UNCHANGED <<wpc, result>>
    /\ UNCHANGED <<steps, dry_run, post_ran, NotWorkflow>>

\* the loop over the steps is exhausted
WorkflowLoopEnd ==
    /\ wpc = "for"
    /\ step_idx > Len(steps)
    /\ wpc' = "post"
    /\ UNCHANGED <<steps, dry_run, step_idx, completed_steps, result, executed_steps,
                   succeeded_steps, post_ran, NotWorkflow>>

\* if not dry_run: the post_workflow steps run, their exceptions are warnings;
\* return True
WorkflowPost ==
    /\ wpc = "post"
    /\ post_ran' = ~dry_run
    /\ wpc' = "returned"
    /\ result' = "True"
    /\ UNCHANGED <<steps, dry_run, step_idx, completed_steps, executed_steps,
                   succeeded_steps, NotWorkflow>>

WorkflowSteps ==
    [name : StepNames, depends_on : SUBSET StepNames, on_error : OnErrors,
     condition : Conditions]

InitWorkflow ==
    /\ steps \in SeqsUpTo(WorkflowSteps, MaxSteps)
    /\ dry_run \in BOOLEAN
    /\ step_idx = 1
    /\ completed_steps = {}
    /\ wpc = "for"
    /\ result = "none"
    /\ executed_steps = {} /\ succeeded_steps = {}
    /\ post_ran = FALSE
    /\ heap = <<>>
    /\ IdleResolve /\ IdleInherit /\ IdleImages /\ IdleBlank /\ IdleSplit /\ IdleStrip /\ IdleClean /\ IdleBatch /\ IdleArchive /\ IdleEnsure

NextWorkflow == WorkflowStep \/ WorkflowLoopEnd \/ WorkflowPost

SpecWorkflow == InitWorkflow /\ [][NextWorkflow]_vars /\ WF_vars(NextWorkflow)

\* the steps whose script raised
FailedSteps == executed_steps \ succeeded_steps

\* C30: a step with depends_on is executed only if each of its dependencies
\* was completed earlier in the same run, by a step before it whose script
\* ended without exception; steps that failed under on_error = "continue" or
\* were skipped do not count as completed; and a failure under
\* on_error = "stop" ends the run with False, with no later step executed and
\* post_workflow not run.
C30_DependenciesAndStop ==
    /\ \A k \in executed_steps :
          \A dep \in steps[k].depends_on :
             \E j \in succeeded_steps : j < k /\ steps[j].name = dep
    /\ ~dry_run => completed_steps = {steps[j].name : j \in succeeded_steps}
    /\ \A k \in FailedSteps :
          steps[k].on_error = "stop" =>
             /\ wpc = "returned" /\ result = "False" /\ ~post_ran
             /\ \A j \in executed_steps : j <= k
    /\ result = "False" => \E k \in FailedSteps : steps[k].on_error = "stop"

\* C30 witness: step "a" failed under on_error = "continue", so step "b",
\* which depends on it, was skipped, and the run returned True.
C30_Witness ==
    /\ wpc = "returned" /\ result = "True" /\ post_ran
    /\ Len(steps) = 2
    /\ steps[1].name = "a" /\ steps[1].on_error = "continue"
    /\ steps[2].name = "b" /\ steps[2].depends_on = {"a"} /\ steps[2].condition = "none"
    /\ executed_steps = {1} /\ succeeded_steps = {}

=============================================================================
